---- MODULE Spec2Model ----
(***************************************************************************)
(* Verification model of the MinA voice-note pipeline.                     *)
(*                                                                         *)
(*   Spec        the intake webhook (src/app.py twilio_webhook): dedupe    *)
(*               pre-check, duration measurement, credit/subscription      *)
(*               reservation under the user row lock, job insert, enqueue. *)
(*   WorkerSpec  the worker functions of                                   *)
(*               src/worker_multilang_production_fixed.py.                 *)
(*   ReplySpec   the text replies of twilio_webhook (menu, skip, language  *)
(*               choice, commands) and api_summarize, on meetings the      *)
(*               worker has transcribed.                                   *)
(*   JobSpec     one job from the commit of its row through the enqueue    *)
(*               to the end of process_audio_job, with fairness.           *)
(*   RetrySpec   the loop of with_retries, call by call.                   *)
(*   PaymentSpec the Razorpay webhook (src/payments.py                     *)
(*               handle_webhook_event), deliveries running side by side.   *)
(*   FlowSpec    the invoice flow (src/billing_plugin/invoice_flow.py).    *)
(*                                                                         *)
(* Units: credits and minutes are kept in hundredths of a minute, the      *)
(* precision of round(duration_seconds / 60.0, 2); time is in days.        *)
(***************************************************************************)
EXTENDS Integers, Sequences, FiniteSets, TLC

VARIABLES
    users,          \* table users: phone -> row (present = FALSE: no row)
    meeting_notes,  \* table meeting_notes: sequence of rows, id = index
    rq,             \* the RQ queue: sequence of <<function, meeting_id, arg>>
    sent,           \* calls of send_whatsapp: message tag -> number of calls
    lock,           \* users row lock / pending insert: phone -> slot, 0 = free
    req,            \* the request handlers in flight: slot -> local state
                    \* (PaymentSpec: per delivery; FlowSpec: the last call)
    now,            \* the clock, in days
    hist,           \* per idempotency key: deliveries started/finished/overlapped
                    \* (FlowSpec: the values the user has supplied)
    users0,         \* the users table of the initial state (never changes)
    wk,             \* the worker's current run (RetrySpec: the frame of
                    \* with_retries)
    tasks,          \* table tasks: sequence of rows created by create_task
    disk,           \* the temporary files on the disk: set of [id, file]
    wlog,           \* the worker's error log of its current or last run
    payments,       \* table payments: razorpay_payment_id -> row
    user_state      \* users.state / state_meta as get_user_state reads them

vars == <<users, meeting_notes, rq, sent, lock, req, now, hist, users0, wk,
          tasks, disk, wlog, payments, user_state>>

----------------------------------------------------------------------------
(* Bounds *)

MaxDeliveries == 2      \* webhook deliveries in one behaviour
MaxTicks == 1           \* subscription periods the clock may advance

----------------------------------------------------------------------------
(* Program constants *)

NEW_USER_CREDITS == 3000        \* 30.0 minutes, INSERT INTO users
UNMEASURABLE_SECONDS == 30      \* get_audio_duration_seconds, last fallback
MIN_FALLBACK_SECONDS == 1       \* max(seconds, 1.0)
DEFAULT_BITRATE == 96000        \* bitrate_map.get(ext, 96000)
SUBSCRIPTION_DAYS == 30         \* set_subscription_active(phone, days=30)
NoExpiry == 0 - 1               \* subscription_expiry IS NULL
Unreadable == 0 - 1             \* mutagen gives no length / getsize raises

Phones == {"u1", "u2"}
\* The request handlers that run at the same time (two web workers).
Slots == {1, 2}

NULL == "NULL"

----------------------------------------------------------------------------
(* Audio files and the duration measurement *)

\* What the downloaded file of a media URL looks like to the webhook:
\* meta = mf.info.length in seconds (Unreadable: mutagen fails or has no
\* length), size = os.path.getsize in bytes (Unreadable: it raises).
AudioFiles ==
    [ m1 |-> [meta |-> 120,        size |-> 960000,   ext |-> "ogg"],
      m2 |-> [meta |-> 120,        size |-> 1920000,  ext |-> "mp3"],
      m3 |-> [meta |-> Unreadable, size |-> 14880000, ext |-> "ogg"],
      m4 |-> [meta |-> 0,          size |-> 4000,     ext |-> "m4a"],
      m5 |-> [meta |-> Unreadable, size |-> 100,      ext |-> "caf"],
      m6 |-> [meta |-> Unreadable, size |-> Unreadable, ext |-> "ogg"] ]

Media == DOMAIN AudioFiles

bitrate_map(ext) ==
    CASE ext \in {"ogg", "opus", "webm"} -> 64000
      [] ext \in {"m4a", "aac", "mp4"} -> 96000
      [] ext = "mp3" -> 128000
      [] ext = "wav" -> 1411200
      [] ext \in {"amr", "3gp"} -> 12200
      [] OTHER -> DEFAULT_BITRATE

Max(a, b) == IF a >= b THEN a ELSE b

\* get_audio_duration_seconds, in whole seconds (the sizes above are whole
\* seconds of audio at the table bitrate, or below one second).
get_audio_duration_seconds(f) ==
    IF f.meta # Unreadable THEN f.meta
    ELSE IF f.size # Unreadable
         THEN Max((f.size * 8) \div bitrate_map(f.ext), MIN_FALLBACK_SECONDS)
         ELSE UNMEASURABLE_SECONDS

\* minutes = round(duration_seconds / 60.0, 2), in hundredths of a minute.
\* seconds * 100 / 60 never has a fractional part of one half for a whole
\* number of seconds, so rounding half up is Python's round here.
MinutesOf(seconds) == (seconds * 100 + 30) \div 60

MediaMinutes(m) == MinutesOf(get_audio_duration_seconds(AudioFiles[m]))

----------------------------------------------------------------------------
(* Inbound events *)

\* sid = "" : the transport gave no MessageSid.
Events ==
    { [from |-> "u1", sid |-> "SM1", media |-> "m1"],
      [from |-> "u1", sid |-> "SM2", media |-> "m2"],
      [from |-> "u2", sid |-> "",    media |-> "m3"],
      [from |-> "u1", sid |-> "SM4", media |-> "m4"],
      [from |-> "u2", sid |-> "SM5", media |-> "m5"] }

\* hashlib.sha256(media_url).hexdigest(): a string that is no MessageSid,
\* different for different URLs.
Sha256Hex(m) ==
    CASE m = "m1" -> "h1" [] m = "m2" -> "h2" [] m = "m3" -> "h3"
      [] m = "m4" -> "h4" [] m = "m5" -> "h5" [] m = "m6" -> "h6"

\* dedupe_key = message_sid or media_hash
dedupe_key(ev) == IF ev.sid # "" THEN ev.sid ELSE Sha256Hex(ev.media)

Keys == {dedupe_key(ev) : ev \in Events}

----------------------------------------------------------------------------
(* Tables *)

\* preferred_language is the column db_multilang adds, DEFAULT 'hi'.
UserRow(c, a, e) ==
    [present |-> TRUE, credits |-> c, sub_active |-> a, sub_expiry |-> e,
     preferred_language |-> "hi"]

NoUserRow ==
    [present |-> FALSE, credits |-> 0, sub_active |-> FALSE, sub_expiry |-> NoExpiry,
     preferred_language |-> "hi"]

\* INSERT INTO users (phone, credits_remaining, subscription_active, created_at)
\* VALUES (phone, 30.0, False, now())
NewUserRow == UserRow(NEW_USER_CREDITS, FALSE, NoExpiry)

\* The users rows the initial state draws from: no credits or two minutes
\* of credits without a subscription, and a subscription without expiry.
\* A subscription with an expiry comes from a payment confirmation, an
\* expired one from the clock passing it.
InitialUserRows ==
    { UserRow(0, FALSE, NoExpiry),
      UserRow(200, FALSE, NoExpiry),
      UserRow(0, TRUE, NoExpiry) }

\* The job_state of a row the INSERT of the webhook creates: the statement
\* names phone, audio_file, transcript, summary, message_sid and created_at
\* only, so the column is left NULL.
InsertedJobState == NULL

\* INSERT INTO meeting_notes (phone, audio_file, transcript, summary,
\* message_sid, created_at) VALUES (phone, media_url, None, None, dedupe_key, now())
NewMeetingRow(phone, media_url, key) ==
    [ phone |-> phone, audio_file |-> media_url, transcript |-> NULL,
      summary |-> NULL, message_sid |-> key, job_state |-> InsertedJobState,
      detected_language |-> NULL, summary_language |-> NULL,
      chosen_language |-> NULL, failure_reason |-> NULL ]

\* Mutant: the dedupe query compares the key with the wrong column.
KeyCarried_WrongColumn(notes, key) ==
    \E i \in DOMAIN notes : notes[i].audio_file = key

\* SELECT 1 FROM meeting_notes WHERE message_sid = key LIMIT 1
KeyCarried(notes, key) ==
    \E i \in DOMAIN notes : notes[i].message_sid = key

JobsWithKey(key) ==
    {i \in DOMAIN meeting_notes : meeting_notes[i].message_sid = key}

\* Whether the schema (db.py, init_db) enforces a uniqueness constraint on
\* meeting_notes.message_sid. The design records that the pre-check is the
\* only guard and that the constraint is a recommendation.
MessageSidUniqueConstraint == FALSE

\* users.phone is the identity of a user: a second INSERT of the same phone
\* raises a unique violation.
UsersPhoneUnique == TRUE

----------------------------------------------------------------------------
(* Messages *)

\* The texts of the replies, by kind. "not_started" stands for the two texts
\* "Service temporarily unavailable ..." and "We couldn't start processing
\* your audio ...".
Kinds == {"download_failed", "payment", "processing", "not_started"}

\* The replies of the intake are counted per delivery: the key of a reply is
\* the idempotency key of the delivery it answers, with no meeting id.
ForDelivery(key) == [to |-> key, id |-> 0]

MsgTags == [key : {ForDelivery(k) : k \in Keys}, kind : Kinds]

\* One call of send_whatsapp(phone, text): made while handling the delivery
\* ForDelivery(key), or by the worker and the reply handler about a meeting.
\* The transport helper logs a failed send and returns, so a call is a reply.
send_whatsapp(S, key, kind) ==
    LET t == [key |-> key, kind |-> kind]
    IN  [S EXCEPT ![t] = @ + 1]

\* The replies sent for one key.
Replies(key) ==
    LET RECURSIVE Sum(_)
        Sum(T) == IF T = {} THEN 0
                  ELSE LET t == CHOOSE x \in T : TRUE IN sent[t] + Sum(T \ {t})
    IN  Sum({t \in MsgTags : t.key = ForDelivery(key)})

----------------------------------------------------------------------------
(* The reservation decision *)

\* Mutant: the expiry of the subscription is not looked at.
ToDeduct_IgnoresExpiry(row, minutes, t) ==
    IF row.sub_active THEN 0 ELSE minutes

\* if sub_active and (sub_expiry is None or sub_expiry > now): to_deduct = 0.0
\* else: to_deduct = minutes
ToDeduct(row, minutes, t) ==
    IF row.sub_active /\ (row.sub_expiry = NoExpiry \/ row.sub_expiry > t)
    THEN 0 ELSE minutes

\* Mutant: only an empty balance is refused.
InsufficientBalance_OnlyEmpty(to_deduct, credits_remaining) ==
    to_deduct > 0 /\ credits_remaining < 0

\* if to_deduct > 0 and credits_remaining < to_deduct
InsufficientBalance(to_deduct, credits_remaining) ==
    to_deduct > 0 /\ credits_remaining < to_deduct

\* Mutant: the transaction debits the audio duration, not to_deduct.
UserRowAfterReservation_DebitsMinutes(row, to_deduct, minutes) ==
    [row EXCEPT !.credits = @ - minutes]

\* The users row the reservation transaction commits: the row it read (or
\* inserted). No statement of the transaction writes credits_remaining.
UserRowAfterReservation(row, to_deduct, minutes) == row

----------------------------------------------------------------------------
(* The intake webhook: twilio_webhook *)

NoEvent == [from |-> "", sid |-> "", media |-> ""]

IdleReq ==
    [ pc |-> "idle", ev |-> NoEvent, minutes |-> 0, row |-> NoUserRow,
      isnew |-> FALSE, meeting_id |-> 0 ]

Delivered == hist.n

InFlight(key) ==
    \E s \in Slots : req[s].pc # "idle" /\ dedupe_key(req[s].ev) = key

\* The handler of a new delivery runs in the lowest free slot.
FreeSlot(s) ==
    /\ req[s].pc = "idle"
    /\ \A t \in Slots : t < s => req[t].pc # "idle"

Started(key) ==
    [hist EXCEPT !.n = @ + 1,
                 !.overlap[key] = @ \/ InFlight(key)]

Finished(h, key) == [h EXCEPT !.fin[key] = @ + 1]

\* Lines 302-317: the key is carried by a row of meeting_notes: return 204.
ReceiveDuplicate(s, ev) ==
    /\ FreeSlot(s)
    /\ Delivered < MaxDeliveries
    /\ KeyCarried(meeting_notes, dedupe_key(ev))
    /\ hist' = Finished(Started(dedupe_key(ev)), dedupe_key(ev))
    /\ UNCHANGED <<users, meeting_notes, rq, sent, lock, req, now, users0, wk, tasks, disk, wlog,
                   payments, user_state>>

\* Lines 535-539: download_media_to_local returns None.
ReceiveDownloadFailed(s, ev) ==
    /\ FreeSlot(s)
    /\ Delivered < MaxDeliveries
    /\ ~KeyCarried(meeting_notes, dedupe_key(ev))
    /\ sent' = send_whatsapp(sent, ForDelivery(dedupe_key(ev)), "download_failed")
    /\ hist' = Finished(Started(dedupe_key(ev)), dedupe_key(ev))
    /\ UNCHANGED <<users, meeting_notes, rq, lock, req, now, users0, wk, tasks, disk, wlog,
                   payments, user_state>>

\* download_media_to_local, lines 160-188: the file the handler in slot s
\* downloaded for the delivery and holds in local_path.
local_path(s, ev) == [id |-> s, file |-> dedupe_key(ev)]

\* Lines 302-317, 535-543: the key is new, the media is downloaded to a local
\* file and its duration measured.
ReceiveMedia(s, ev) ==
    /\ FreeSlot(s)
    /\ Delivered < MaxDeliveries
    /\ ~KeyCarried(meeting_notes, dedupe_key(ev))
    /\ req' = [req EXCEPT ![s] = [IdleReq EXCEPT !.pc = "select", !.ev = ev,
                                    !.minutes = MediaMinutes(ev.media)]]
    /\ hist' = Started(dedupe_key(ev))
    /\ disk' = disk \cup {local_path(s, ev)}
    /\ UNCHANGED <<users, meeting_notes, rq, sent, lock, now, users0, wk, tasks, wlog,
                   payments, user_state>>

\* Lines 549-554: SELECT ... FROM users WHERE phone = %s FOR UPDATE. A row
\* that exists is locked (the statement waits for the lock); no row: nothing
\* is locked.
SelectUserForUpdate(s) ==
    LET p == req[s].ev.from IN
    /\ req[s].pc = "select"
    /\ users[p].present => lock[p] = 0
    /\ IF users[p].present
       THEN /\ lock' = [lock EXCEPT ![p] = s]
            /\ req' = [req EXCEPT ![s].pc = "reserve", ![s].row = users[p]]
       ELSE /\ lock' = lock
            /\ req' = [req EXCEPT ![s].pc = "insert_user"]
    /\ UNCHANGED <<users, meeting_notes, rq, sent, now, hist, users0, wk, tasks, disk, wlog,
                   payments, user_state>>

\* Lines 555-575: INSERT INTO users ... RETURNING. The insert waits for a
\* transaction that has the same phone locked or pending; when the row is
\* there by then, the insert raises and the handler returns 204 (line 657).
InsertUser(s) ==
    LET p == req[s].ev.from
        key == dedupe_key(req[s].ev) IN
    /\ req[s].pc = "insert_user"
    /\ lock[p] = 0
    /\ IF users[p].present /\ UsersPhoneUnique
       THEN /\ req' = [req EXCEPT ![s] = IdleReq]
            /\ hist' = Finished(hist, key)
            /\ lock' = lock
       ELSE /\ req' = [req EXCEPT ![s].pc = "reserve", ![s].row = NewUserRow,
                                  ![s].isnew = TRUE]
            /\ hist' = hist
            /\ lock' = [lock EXCEPT ![p] = s]
    /\ UNCHANGED <<users, meeting_notes, rq, sent, now, users0, wk, tasks, disk, wlog,
                   payments, user_state>>

\* Lines 577-600: not enough credits: rollback, payment message, return.
ReserveInsufficient(s) ==
    LET p == req[s].ev.from
        key == dedupe_key(req[s].ev)
        to_deduct == ToDeduct(req[s].row, req[s].minutes, now) IN
    /\ req[s].pc = "reserve"
    /\ InsufficientBalance(to_deduct, req[s].row.credits)
    /\ lock' = [lock EXCEPT ![p] = 0]
    /\ sent' = send_whatsapp(sent, ForDelivery(key), "payment")
    /\ req' = [req EXCEPT ![s] = IdleReq]
    /\ hist' = Finished(hist, key)
    /\ UNCHANGED <<users, meeting_notes, rq, now, users0, wk, tasks, disk, wlog,
                   payments, user_state>>

\* Lines 577-585, 602-626: the meeting row is inserted, the transaction
\* committed and the local file removed. With a uniqueness constraint on
\* message_sid an insert of a key that is carried raises: rollback, return
\* 204 (line 657), which removes no file.
ReserveCommit(s) ==
    LET p == req[s].ev.from
        key == dedupe_key(req[s].ev)
        to_deduct == ToDeduct(req[s].row, req[s].minutes, now) IN
    /\ req[s].pc = "reserve"
    /\ ~InsufficientBalance(to_deduct, req[s].row.credits)
    /\ lock' = [lock EXCEPT ![p] = 0]
    /\ IF MessageSidUniqueConstraint /\ KeyCarried(meeting_notes, key)
       THEN /\ req' = [req EXCEPT ![s] = IdleReq]
            /\ hist' = Finished(hist, key)
            /\ UNCHANGED <<users, meeting_notes>>
       ELSE /\ meeting_notes' =
                   Append(meeting_notes, NewMeetingRow(p, req[s].ev.media, key))
            /\ users' = [users EXCEPT ![p] =
                   UserRowAfterReservation(req[s].row, to_deduct, req[s].minutes)]
            /\ req' = [req EXCEPT ![s].pc = "enqueue",
                                  ![s].meeting_id = Len(meeting_notes) + 1]
            /\ hist' = hist
    /\ disk' = IF MessageSidUniqueConstraint /\ KeyCarried(meeting_notes, key)
               THEN disk
               ELSE disk \ {local_path(s, req[s].ev)}
    /\ UNCHANGED <<rq, sent, now, users0, wk, tasks, wlog,
                   payments, user_state>>

EnqueueOutcomes == {"job", "none", "raise"}

\* Lines 628-655: safe_enqueue returns a job, returns None (Redis read-only
\* or unreachable), or the queue is missing / the enqueue raises.
Enqueue(s, q) ==
    LET key == dedupe_key(req[s].ev) IN
    /\ req[s].pc = "enqueue"
    /\ rq' = IF q = "job"
             THEN Append(rq, <<"process_audio_job", req[s].meeting_id, req[s].ev.media>>)
             ELSE rq
    /\ sent' = CASE q = "job" -> send_whatsapp(sent, ForDelivery(key), "processing")
                 [] q = "none" -> send_whatsapp(sent, ForDelivery(key), "not_started")
                 [] q = "raise" -> send_whatsapp(sent, ForDelivery(key), "not_started")
    /\ req' = [req EXCEPT ![s] = IdleReq]
    /\ hist' = Finished(hist, key)
    /\ UNCHANGED <<users, meeting_notes, lock, now, users0, wk, tasks, disk, wlog,
                   payments, user_state>>

----------------------------------------------------------------------------
(* Payment confirmation and the clock *)

\* set_subscription_active(phone, days=30), called by handle_webhook_event
\* for a payment that became paid: the subscription is active until
\* now + 30 days. The UPDATE waits for the row lock.
set_subscription_active(row, t) ==
    [row EXCEPT !.sub_active = TRUE, !.sub_expiry = t + SUBSCRIPTION_DAYS]

PaymentConfirmed(p) ==
    /\ users[p].present
    /\ lock[p] = 0
    /\ users' = [users EXCEPT ![p] = set_subscription_active(@, now)]
    /\ users'[p] # users[p]
    /\ UNCHANGED <<meeting_notes, rq, sent, lock, req, now, hist, users0, wk, tasks, disk, wlog,
                   payments, user_state>>

Tick ==
    /\ now < MaxTicks * SUBSCRIPTION_DAYS
    /\ now' = now + SUBSCRIPTION_DAYS
    /\ UNCHANGED <<users, meeting_notes, rq, sent, lock, req, hist, users0, wk, tasks, disk, wlog,
                   payments, user_state>>

----------------------------------------------------------------------------
(* Specification of the intake *)

WkIdle == [pc |-> "idle"]

\* The tables of the payment webhook and of the invoice flow where neither
\* runs: no payment row, no conversation state.
NoPayments == <<>>
NoUserStates == <<>>

\* The log before the worker ran: no function, no meeting, no error.
NoRun == [fn |-> "NULL", id |-> 0, errs |-> {}, dl_calls |-> 0, tr_fails |-> 0,
          cl_too_large |-> FALSE, body |-> FALSE,
          conv |-> 0, conv_ok |-> 0, tr_files |-> {}]

Init ==
    /\ users \in {u \in [Phones -> InitialUserRows \cup {NoUserRow}] :
                     u["u1"].present /\ ~u["u2"].present}
    /\ users0 = users
    /\ meeting_notes = <<>>
    /\ rq = <<>>
    /\ sent = [t \in MsgTags |-> 0]
    /\ lock = [p \in Phones |-> 0]
    /\ req = [s \in Slots |-> IdleReq]
    /\ now = 0
    /\ hist = [n |-> 0, fin |-> [k \in Keys |-> 0], overlap |-> [k \in Keys |-> FALSE]]
    /\ wk = WkIdle
    /\ tasks = <<>>
    /\ disk = {}
    /\ wlog = NoRun
    /\ payments = NoPayments
    /\ user_state = NoUserStates

Next ==
    \/ \E s \in Slots, ev \in Events : ReceiveDuplicate(s, ev)
    \/ \E s \in Slots, ev \in Events : ReceiveDownloadFailed(s, ev)
    \/ \E s \in Slots, ev \in Events : ReceiveMedia(s, ev)
    \/ \E s \in Slots : SelectUserForUpdate(s)
    \/ \E s \in Slots : InsertUser(s)
    \/ \E s \in Slots : ReserveInsufficient(s)
    \/ \E s \in Slots : ReserveCommit(s)
    \/ \E s \in Slots, q \in EnqueueOutcomes : Enqueue(s, q)
    \/ \E p \in Phones : PaymentConfirmed(p)
    \/ Tick

Spec == Init /\ [][Next]_vars

----------------------------------------------------------------------------
(* The worker: src/worker_multilang_production_fixed.py *)

\* RETRY_ATTEMPTS = int(os.getenv("WORKER_RETRY_ATTEMPTS", "3"))
RETRY_ATTEMPTS == 3

\* The attempts of the action-item extraction: with_retries(_actions, attempts=2)
ACTION_ATTEMPTS == 2

\* The numbers of action items the extraction yields for one meeting.
ItemCounts == {0, 1}

\* The audio sources handed to process_audio_job: the media URL of the
\* intake (no extension in its path) and the local path written by
\* api_upload.
UPLOAD_PATH == "/tmp/app_upload_1_note.m4a"

AudioSources == {"m1", UPLOAD_PATH}

\* str(audio_source).lower().startswith("http")
is_url(src) == src \in Media

\* os.path.splitext(str(audio_source))[-1] or ".dat": the suffix of tmp_in
tmp_suffix(src) == IF src = UPLOAD_PATH THEN ".m4a" ELSE ".dat"

NativeExts == {".wav", ".m4a", ".mp3", ".ogg", ".opus", ".webm", ".aac", ".3gp"}

\* need_convert = ext not in (".wav", ".m4a", ...)
need_convert(src) == tmp_suffix(src) \notin NativeExts

\* The texts the inference collaborator returns.
TRANSCRIPT_EN == "lets ship the release on friday"
TRANSCRIPT_HI == "aap kal report bhejenge (devanagari)"

TranscriptTexts == {TRANSCRIPT_EN, TRANSCRIPT_HI}

Languages == {"en", "hi"}

\* Lines 269-278: "hi" when the first 300 characters hold a Devanagari
\* sign, "en" otherwise.
detect_language(text) == IF text = TRANSCRIPT_HI THEN "hi" ELSE "en"

\* summarize_text_multilang(transcript, language_code=lang, ...)
summarize_text_multilang(transcript, lang) ==
    IF lang = "hi" THEN "saaraansh: release shukravaar ko"
    ELSE "summary: release ships on friday"

SummaryTexts == {summarize_text_multilang(t, l) : t \in TranscriptTexts, l \in Languages}

\* Every plaintext the inference collaborator can return.
Plaintexts == TranscriptTexts \cup SummaryTexts

\* encrypt(text) -> opaqueBlob of encryption.py: an injective encoding that
\* never returns its argument.
encrypt_sensitive_data(x) == "gAAAAA:" \o x

\* decrypt(opaqueBlob) -> text: the inverse of encrypt on its range; any
\* other value is not a token and raises.
IsToken(c) == \E x \in Plaintexts : encrypt_sensitive_data(x) = c

decrypt_sensitive_data(c) == CHOOSE x \in Plaintexts : encrypt_sensitive_data(x) = c

\* Outcomes of the collaborators of one step.
Outcomes == {"ok", "raise"}

\* update_meeting of one step: every UPDATE succeeds, the first UPDATE of
\* the step raises and a later one succeeds, or every UPDATE raises.
DbOutcomes == {"ok", "raise_once", "raise"}

\* os.path.getsize(tmp_in) against 0.001 MB and MAX_FILE_MB
SizeClasses == {"empty", "ok", "too_large"}

\* ensure_wav_via_ffmpeg: converted, ffmpeg missing (FileNotFoundError: the
\* output file is removed and the input path returned), ffmpeg failed
\* (CalledProcessError: the output file is removed and the error raised
\* again), or subprocess.run raised anything else (an OSError such as
\* PermissionError for a ffmpeg that cannot be executed): no except clause
\* of lines 145-162 matches, the error leaves the function and the
\* output file mkstemp created at line 132 stays.
ConvertOutcomes == {"ok", "no_ffmpeg", "raise", "os_error"}

\* The outcomes in which ensure_wav_via_ffmpeg raises.
ConvertRaises == {"raise", "os_error"}

\* with_retries(fn, attempts): fn is called until it succeeds, at most
\* `attempts` times; `fails` is the number of leading calls that raise.
with_retries_calls(fails, attempts) ==
    IF fails < attempts THEN fails + 1 ELSE attempts

with_retries_raises(fails, attempts) == fails >= attempts

\* The reasons written by the handlers: fixed texts and str(e).
ERR_DOWNLOAD == "download failed"
ERR_NOT_FOUND == "local audio source not found"
ERR_TOO_SMALL == "Downloaded audio file is too small or empty."
ERR_DB == "database error"
ERR_SEND == "send_whatsapp error"
ERR_SUMMARIZE == "summarize error"

\* UPDATE meeting_notes SET k = v, ... WHERE id = meeting_id
update_meeting(notes, meeting_id, fields) ==
    IF meeting_id \in DOMAIN notes
    THEN [notes EXCEPT ![meeting_id] =
             [k \in DOMAIN @ |-> IF k \in DOMAIN fields THEN fields[k] ELSE @[k]]]
    ELSE notes

FailedFields(reason) == [job_state |-> "failed", failure_reason |-> reason]

\* The handler of the outer `except Exception` of both functions:
\* update_meeting(job_state="failed", failure_reason=str(e)) inside
\* try/except pass.
outer_except(notes, meeting_id, reason, db_ok) ==
    IF db_ok THEN update_meeting(notes, meeting_id, FailedFields(reason)) ELSE notes

\* An update_meeting call in the body of the outer try: when it raises, the
\* outer handler runs with the database error as the reason.
try_update(notes, meeting_id, fields, db) ==
    CASE db = "ok" -> update_meeting(notes, meeting_id, fields)
      [] db = "raise_once" -> outer_except(notes, meeting_id, ERR_DB, TRUE)
      [] db = "raise" -> outer_except(notes, meeting_id, ERR_DB, FALSE)

\* The worker after a job function raised to its caller.
WkRaised == [pc |-> "raised"]

\* Mutant: the UPDATE of the handler is not inside a try of its own.
handler_raises_NoInnerTry(db_ok) == ~db_ok

\* Lines 302-307 and 415-420: the UPDATE of the outer handler is inside
\* try / except Exception: pass, so the handler raises nothing whether the
\* UPDATE succeeds or not.
handler_raises(db_ok) == FALSE

\* The worker once the outer handler has run: the function returned, or
\* the handler raised.
after_handler(db_ok) == IF handler_raises(db_ok) THEN WkRaised ELSE WkIdle

\* The worker after the run ended with try_update(.., db).
after_try_update(db) ==
    IF db = "ok" THEN WkIdle ELSE after_handler(db = "raise_once")

\* Messages of the worker and of the language-choice reply, tagged with the
\* recipient and the meeting.
Recipients == Phones \cup {"unknown"}

WkKinds == {"too_large", "transcription_failed", "transcribed",
            "actions_found", "generating_summary", "summary_not_started",
            "summary_skipped"}

\* The ids of the meetings the worker is given.
JobIds == {1}

WkMsgTags == [key : [to : Recipients, id : JobIds], kind : WkKinds]

\* phone or "unknown"
recipient(phone) == IF phone = NULL THEN "unknown" ELSE phone

wk_send(S, phone, meeting_id, kind, send) ==
    IF send = "ok"
    THEN send_whatsapp(S, [to |-> recipient(phone), id |-> meeting_id], kind)
    ELSE S

\* The `finally` of process_audio_job: tmp_in and tmp_conv, the two paths
\* the function holds, are removed.
cleanup(D, meeting_id) ==
    {f \in D : IF f.id = meeting_id THEN f.file \notin {"in", "conv"} ELSE TRUE}

\* log_err(...): the failures of one step are added to the log of the run.
IfErr(cond, e) == IF cond THEN {e} ELSE {}

log_err(L, errs) == [L EXCEPT !.errs = @ \cup errs]

\* The log of a run that starts.
NewRun(fn, id) == [NoRun EXCEPT !.fn = fn, !.id = id]

\* The calls that raised in one with_retries round.
failed_calls(fails, attempts) == IF fails < attempts THEN fails ELSE attempts

WkRun(pc, id, src, phone) ==
    [pc |-> pc, id |-> id, src |-> src, phone |-> phone,
     text |-> NULL, lang |-> NULL]

\* Lines 179-203: the job is taken from the queue, the phone of the meeting
\* is read (best effort) and the temporary input file is created.
PajStart(read) ==
    /\ wk.pc = "idle"
    /\ rq # <<>>
    /\ Head(rq)[1] = "process_audio_job"
    /\ LET id == Head(rq)[2]
           src == Head(rq)[3]
           phone == IF read = "ok" /\ id \in DOMAIN meeting_notes
                    THEN meeting_notes[id].phone ELSE NULL
       IN  /\ wk' = WkRun("fetch", id, src, phone)
           /\ disk' = disk \cup {[id |-> id, file |-> "in"]}
           /\ wlog' = log_err(NewRun("process_audio_job", id),
                              IfErr(read = "raise", "phone_read"))
    /\ rq' = Tail(rq)
    /\ UNCHANGED <<users, meeting_notes, sent, lock, req, now, hist, users0, tasks,
                   payments, user_state>>

\* The Content-Length header of the download: absent, within MAX_FILE_MB
\* or above it.
DeclaredLengths == {"absent", "within", "too_large"}

\* A local file is copied without a header, and the declared length of a
\* download is the length of its body.
declared_possible(src, declared, size) ==
    IF is_url(src)
    THEN declared = "too_large" => size = "too_large"
    ELSE declared = "absent"

\* Mutant: the ValueError of line 115 leaves stream_download_to_file.
rejects_declared_Raises(declared) == declared = "too_large"

\* stream_download_to_file, lines 109-118: the ValueError raised for a
\* declared length above MAX_FILE_MB is raised inside the try whose
\* `except Exception: pass` is meant for header parse errors, so it is
\* caught and the body is streamed whatever the header says.
rejects_declared(declared) == FALSE

\* Lines 205-218: whether tmp_in holds the audio after the download with
\* retries (`fails` leading calls raise) or the copy of the local file
\* (fails > 0: the file does not exist).
fetched(src, fails, declared) ==
    IF is_url(src)
    THEN ~with_retries_raises(fails, RETRY_ATTEMPTS) /\ ~rejects_declared(declared)
    ELSE fails = 0

\* Lines 207-211: the calls of stream_download_to_file made by with_retries;
\* a local source is copied without a download.
download_calls(src, fails) ==
    IF is_url(src) THEN with_retries_calls(fails, RETRY_ATTEMPTS) ELSE 0

\* Mutant: no ceiling, only the empty file stops the run.
fetch_proceeds_NoCeiling(got, size) == got /\ size # "empty"

\* Lines 220-230: the run goes on to the transcription when the file is
\* neither below 0.001 MB nor above MAX_FILE_MB.
fetch_proceeds(got, size) == got /\ size = "ok"

\* The rows after lines 205-230.
notes_after_fetch(notes, id, src, got, size, send, db) ==
    CASE ~got ->
           outer_except(notes, id, IF is_url(src) THEN ERR_DOWNLOAD ELSE ERR_NOT_FOUND,
                        db = "ok")
      [] got /\ size = "empty" -> outer_except(notes, id, ERR_TOO_SMALL, db = "ok")
      [] got /\ size = "too_large" /\ send = "raise" ->
           outer_except(notes, id, ERR_SEND, db = "ok")
      [] got /\ size = "too_large" /\ send = "ok" ->
           try_update(notes, id, FailedFields("file_too_large"), db)
      [] OTHER -> notes

\* Lines 205-230: download with retries or copy of the local file, then the
\* size checks.
PajFetch(fails, declared, size, send, db) ==
    /\ wk.pc = "fetch"
    /\ declared_possible(wk.src, declared, size)
    /\ LET id == wk.id
           got == fetched(wk.src, fails, declared)
           proceed == fetch_proceeds(got, size)
       IN  /\ meeting_notes' =
                 notes_after_fetch(meeting_notes, id, wk.src, got, size, send, db)
           /\ sent' = IF got /\ size = "too_large"
                      THEN wk_send(sent, wk.phone, id, "too_large", send)
                      ELSE sent
           /\ wk' = CASE proceed -> [wk EXCEPT !.pc = "transcribe"]
                      [] got /\ size = "too_large" /\ send = "ok" ->
                           after_try_update(db)
                      [] OTHER -> after_handler(db = "ok")
           /\ disk' = IF proceed THEN disk ELSE cleanup(disk, id)
           /\ wlog' = [log_err(wlog,
                    IfErr(~got, "download")
                    \cup IfErr(got /\ size # "ok", "size")
                    \cup IfErr(got /\ size = "too_large", "too_large")
                    \cup IfErr(got /\ size = "too_large" /\ send = "raise", "send")
                    \cup IfErr(~proceed /\ db # "ok", "db"))
                       EXCEPT !.cl_too_large = (declared = "too_large"),
                              !.body = got,
                              !.dl_calls = download_calls(wk.src, fails)]
    /\ UNCHANGED <<users, rq, lock, req, now, hist, users0, tasks,
                   payments, user_state>>

\* Lines 232-266: conversion when the format needs it, transcription with
\* retries, and one more round on a converted file when the first round
\* failed without a converted file. c1, c2 are the outcomes of the two
\* conversions and fails1, fails2 the failing calls of the two rounds.
tmp_conv_after(src, c1) ==
    IF need_convert(src)
    THEN CASE c1 = "ok" -> "conv" [] c1 = "no_ffmpeg" -> "in" [] OTHER -> NULL
    ELSE NULL

transcribed_ok(src, c1, fails1, c2, fails2) ==
    IF ~with_retries_raises(fails1, RETRY_ATTEMPTS) THEN TRUE
    ELSE /\ tmp_conv_after(src, c1) = NULL
         /\ c2 \notin ConvertRaises
         /\ ~with_retries_raises(fails2, RETRY_ATTEMPTS)

\* Whether a converted file exists once the transcription has ended.
converted_file(src, c1, fails1, c2) ==
    IF tmp_conv_after(src, c1) = NULL
    THEN with_retries_raises(fails1, RETRY_ATTEMPTS) /\ c2 = "ok"
    ELSE tmp_conv_after(src, c1) = "conv"

\* Whether the second round (lines 252-257) is entered and its conversion
\* returns a file to transcribe.
second_round(src, c1, fails1, c2) ==
    /\ with_retries_raises(fails1, RETRY_ATTEMPTS)
    /\ tmp_conv_after(src, c1) = NULL
    /\ c2 \notin ConvertRaises

\* Whether a call of ensure_wav_via_ffmpeg raised during the step.
conversion_raised(src, c1, fails1, c2) ==
    IF need_convert(src) /\ c1 \in ConvertRaises THEN TRUE
    ELSE /\ with_retries_raises(fails1, RETRY_ATTEMPTS)
         /\ tmp_conv_after(src, c1) = NULL
         /\ c2 \in ConvertRaises

\* The calls of transcribe_file_multilang that raised during the step.
transcribe_failures(src, c1, fails1, c2, fails2) ==
    failed_calls(fails1, RETRY_ATTEMPTS)
    + (IF second_round(src, c1, fails1, c2)
       THEN failed_calls(fails2, RETRY_ATTEMPTS) ELSE 0)

\* Whether the conversion of line 254 is called: the first round raised
\* and no converted path is held.
second_conversion(src, c1, fails1) ==
    /\ with_retries_raises(fails1, RETRY_ATTEMPTS)
    /\ tmp_conv_after(src, c1) = NULL

\* The calls of ensure_wav_via_ffmpeg during the step, and those that
\* returned a converted file.
conversions(src, c1, fails1) ==
    (IF need_convert(src) THEN 1 ELSE 0)
    + (IF second_conversion(src, c1, fails1) THEN 1 ELSE 0)

conversions_ok(src, c1, fails1, c2) ==
    (IF need_convert(src) /\ c1 = "ok" THEN 1 ELSE 0)
    + (IF second_conversion(src, c1, fails1) /\ c2 = "ok" THEN 1 ELSE 0)

\* The files passed to transcribe_file_multilang: path_for_transcribe in
\* the first round, tmp_conv in the second.
transcribed_files(src, c1, fails1, c2) ==
    {IF tmp_conv_after(src, c1) = "conv" THEN "conv" ELSE "in"}
    \cup (IF second_round(src, c1, fails1, c2)
          THEN {IF c2 = "ok" THEN "conv" ELSE "in"}
          ELSE {})

\* The output files of ensure_wav_via_ffmpeg that no path of the caller
\* names: those of the calls that ended with another error.
orphans(id, src, c1, fails1, c2) ==
    IF (IF need_convert(src) /\ c1 = "os_error" THEN TRUE
        ELSE second_conversion(src, c1, fails1) /\ c2 = "os_error")
    THEN {[id |-> id, file |-> "wav"]}
    ELSE {}

\* The rows after lines 232-266.
notes_after_transcribe(notes, id, ok, send, db) ==
    CASE ok -> notes
      [] ~ok /\ db = "ok" /\ send = "ok" ->
           update_meeting(notes, id, FailedFields("transcription_error"))
      [] ~ok /\ db = "ok" /\ send = "raise" ->
           outer_except(update_meeting(notes, id, FailedFields("transcription_error")),
                        id, ERR_SEND, TRUE)
      [] ~ok /\ db # "ok" ->
           try_update(notes, id, FailedFields("transcription_error"), db)

PajTranscribe(c1, fails1, c2, fails2, text, send, db) ==
    /\ wk.pc = "transcribe"
    /\ LET id == wk.id
           ok == transcribed_ok(wk.src, c1, fails1, c2, fails2)
       IN  /\ meeting_notes' = notes_after_transcribe(meeting_notes, id, ok, send, db)
           /\ sent' = IF ~ok /\ db = "ok"
                      THEN wk_send(sent, wk.phone, id, "transcription_failed", send)
                      ELSE sent
           /\ wk' = CASE ok -> [wk EXCEPT !.pc = "store", !.text = text]
                      [] ~ok /\ db = "ok" /\ send = "ok" -> WkIdle
                      [] ~ok /\ db = "ok" /\ send = "raise" -> after_handler(TRUE)
                      [] ~ok /\ db # "ok" -> after_try_update(db)
           /\ disk' = orphans(id, wk.src, c1, fails1, c2)
                      \cup (IF ok
                            THEN IF converted_file(wk.src, c1, fails1, c2)
                                 THEN disk \cup {[id |-> id, file |-> "conv"]}
                                 ELSE disk
                            ELSE cleanup(disk, id))
           /\ wlog' = [log_err(wlog,
                    IfErr(conversion_raised(wk.src, c1, fails1, c2), "convert")
                    \cup IfErr(~ok, "transcribe")
                    \cup IfErr(~ok /\ db = "ok" /\ send = "raise", "send")
                    \cup IfErr(~ok /\ db # "ok", "db"))
                       EXCEPT !.tr_fails = transcribe_failures(wk.src, c1, fails1, c2, fails2),
                              !.conv = conversions(wk.src, c1, fails1),
                              !.conv_ok = conversions_ok(wk.src, c1, fails1, c2),
                              !.tr_files = transcribed_files(wk.src, c1, fails1, c2)]
    /\ UNCHANGED <<users, rq, lock, req, now, hist, users0, tasks,
                   payments, user_state>>

\* Lines 281-285 and 362-366: try encrypt_sensitive_data(text); on an
\* exception the text itself is the value to store.
stored_value(text, enc) ==
    IF enc = "ok" THEN encrypt_sensitive_data(text) ELSE text

\* Lines 268-315: language detection, encryption, the UPDATE that stores
\* the transcript and sets job_state = 'transcribed', the notification
\* (its failure is logged) and the cleanup.
notes_after_store(notes, id, src, text, enc, db) ==
    try_update(notes, id,
               [transcript |-> stored_value(text, enc),
                detected_language |-> detect_language(text),
                job_state |-> "transcribed",
                audio_file |-> "mina_in" \o tmp_suffix(src)],
               db)

PajStore(enc, send, db) ==
    /\ wk.pc = "store"
    /\ LET id == wk.id
       IN  /\ meeting_notes' =
                 notes_after_store(meeting_notes, id, wk.src, wk.text, enc, db)
           /\ sent' = IF db = "ok"
                      THEN wk_send(sent, wk.phone, id, "transcribed", send)
                      ELSE sent
           /\ disk' = cleanup(disk, id)
    /\ wlog' = log_err(wlog,
             IfErr(enc = "raise", "encrypt")
             \cup IfErr(db # "ok", "db")
             \cup IfErr(db = "ok" /\ send = "raise", "send"))
    /\ wk' = after_try_update(db)
    /\ UNCHANGED <<users, rq, lock, req, now, hist, users0, tasks,
                   payments, user_state>>

\* Lines 317-346: the job is taken from the queue, the row is read, a
\* missing transcript fails the job, and the transcript is decrypted (the
\* stored value itself is used when decryption raises).
CsjStart(read, dec, db) ==
    /\ wk.pc = "idle"
    /\ rq # <<>>
    /\ Head(rq)[1] = "complete_summary_job"
    /\ LET id == Head(rq)[2]
           language_code == Head(rq)[3]
           found == id \in DOMAIN meeting_notes
           enc_transcript == IF found THEN meeting_notes[id].transcript ELSE NULL
           detected == IF found THEN meeting_notes[id].detected_language ELSE NULL
           phone == IF found THEN meeting_notes[id].phone ELSE NULL
           has_text == found /\ enc_transcript # NULL
           transcript == IF dec = "ok" /\ IsToken(enc_transcript)
                         THEN decrypt_sensitive_data(enc_transcript)
                         ELSE enc_transcript
           lang == CASE language_code # NULL -> language_code
                     [] language_code = NULL /\ detected # NULL -> detected
                     [] OTHER -> "en"
       IN  /\ meeting_notes' =
                 CASE read = "raise" -> outer_except(meeting_notes, id, ERR_DB, db = "ok")
                   [] read = "ok" /\ ~found -> meeting_notes
                   [] read = "ok" /\ found /\ ~has_text ->
                        try_update(meeting_notes, id, FailedFields("no_transcript"), db)
                   [] read = "ok" /\ has_text -> meeting_notes
           /\ wk' = CASE read = "raise" -> after_handler(db = "ok")
                      [] read = "ok" /\ ~found -> WkIdle
                      [] read = "ok" /\ found /\ ~has_text -> after_try_update(db)
                      [] read = "ok" /\ has_text ->
                           [WkRun("summarize", id, NULL, phone)
                               EXCEPT !.text = transcript, !.lang = lang]
           /\ wlog' = log_err(NewRun("complete_summary_job", id),
                    IfErr(read = "raise", "read")
                    \cup IfErr(read = "ok" /\ found /\ ~has_text, "no_transcript")
                    \cup IfErr(read = "ok" /\ has_text
                                  /\ ~(dec = "ok" /\ IsToken(enc_transcript)), "decrypt")
                    \cup IfErr((IF read = "raise" THEN TRUE ELSE found /\ ~has_text)
                                  /\ db # "ok", "db"))
    /\ rq' = Tail(rq)
    /\ UNCHANGED <<users, sent, lock, req, now, hist, users0, tasks, disk,
                   payments, user_state>>

\* Lines 348-372: summarization with retries, encryption of the summary and
\* the UPDATE that stores it and sets job_state = 'summary_completed'.
CsjSummarize(fails, enc, db) ==
    /\ wk.pc = "summarize"
    /\ LET id == wk.id
           summary_text == summarize_text_multilang(wk.text, wk.lang)
           fields == [summary |-> stored_value(summary_text, enc),
                      summary_language |-> wk.lang,
                      job_state |-> "summary_completed"]
           summarized == ~with_retries_raises(fails, RETRY_ATTEMPTS)
       IN  /\ meeting_notes' =
                 IF summarized
                 THEN try_update(meeting_notes, id, fields, db)
                 ELSE outer_except(meeting_notes, id, ERR_SUMMARIZE, db = "ok")
           /\ wk' = CASE summarized /\ db = "ok" -> [wk EXCEPT !.pc = "actions"]
                      [] summarized /\ db # "ok" -> after_try_update(db)
                      [] ~summarized -> after_handler(db = "ok")
           /\ wlog' = log_err(wlog,
                    IfErr(~summarized, "summarize")
                    \cup IfErr(summarized /\ enc = "raise", "encrypt")
                    \cup IfErr(db # "ok", "db"))
    /\ UNCHANGED <<users, rq, sent, lock, req, now, hist, users0, tasks, disk,
                   payments, user_state>>

\* Lines 374-413: optional extraction of action items. `fails` are the
\* failing calls of the extraction, `created` the items for which
\* create_task succeeded (0 when the answer holds no parseable list).
\* Mutant: the extraction is not inside a try of its own, its error
\* reaches the outer handler.
notes_after_actions_NoInnerTry(notes, id, raised) ==
    IF raised THEN outer_except(notes, id, ERR_SUMMARIZE, TRUE) ELSE notes

\* The rows after lines 374-411: whatever is raised between the two lines
\* is caught and logged at lines 410-411, the row is not written.
notes_after_actions(notes, id, raised) == notes

CsjActions(fails, created, send) ==
    /\ wk.pc = "actions"
    /\ LET extracted == ~with_retries_raises(fails, ACTION_ATTEMPTS)
           n == IF extracted THEN created ELSE 0
           task == [phone |-> wk.phone, source |-> "mina_ai", meeting_id |-> wk.id]
       IN  /\ tasks' = IF n > 0 THEN Append(tasks, task) ELSE tasks
           /\ sent' = IF n > 0
                      THEN wk_send(sent, wk.phone, wk.id, "actions_found", send)
                      ELSE sent
           /\ meeting_notes' =
                 notes_after_actions(meeting_notes, wk.id,
                                     IF extracted THEN n > 0 /\ send = "raise" ELSE TRUE)
           /\ wlog' = log_err(wlog,
                    IfErr(~extracted, "actions")
                    \cup IfErr(n > 0 /\ send = "raise", "send"))
    /\ wk' = WkIdle
    /\ UNCHANGED <<users, rq, lock, req, now, hist, users0, disk,
                   payments, user_state>>

----------------------------------------------------------------------------
(* The replies that lead to a summary *)

\* The menu handlers of whatsapp_features (handle_numbered_response,
\* handle_button_response) put a transcribed meeting in the state in which
\* the language of the summary is asked for.
PromptLanguageChoice(i) ==
    /\ i \in DOMAIN meeting_notes
    /\ meeting_notes[i].job_state = "transcribed"
    /\ meeting_notes' = update_meeting(meeting_notes, i,
                                       [job_state |-> "awaiting_language_choice"])
    /\ UNCHANGED <<users, rq, sent, lock, req, now, hist, users0, wk, tasks, disk, wlog,
                   payments, user_state>>

\* _get_pending_summary_job(phone): the latest meeting of the phone with
\* job_state = 'awaiting_language_choice', 0 when there is none.
PendingJobs(notes, phone) ==
    {i \in DOMAIN notes : notes[i].phone = phone
                          /\ notes[i].job_state = "awaiting_language_choice"}

\* Mutant: ORDER BY created_at ASC, the oldest pending meeting.
_get_pending_summary_job_Oldest(notes, phone) ==
    IF PendingJobs(notes, phone) = {} THEN 0
    ELSE CHOOSE i \in PendingJobs(notes, phone) :
             \A j \in PendingJobs(notes, phone) : i <= j

_get_pending_summary_job(notes, phone) ==
    IF PendingJobs(notes, phone) = {} THEN 0
    ELSE CHOOSE i \in PendingJobs(notes, phone) :
             \A j \in PendingJobs(notes, phone) : j <= i

\* twilio_webhook, lines 449-475: a language choice while a summary is
\* pending enqueues complete_summary_job(meeting_id, lang_choice); the row
\* is not written.
LanguageChoiceReply(p, lang_choice, q) ==
    LET meeting_id == _get_pending_summary_job(meeting_notes, p) IN
    /\ Delivered < MaxDeliveries
    /\ meeting_id # 0
    /\ rq' = IF q = "job"
             THEN Append(rq, <<"complete_summary_job", meeting_id, lang_choice>>)
             ELSE rq
    /\ sent' = IF q = "job"
               THEN wk_send(sent, p, meeting_id, "generating_summary", "ok")
               ELSE wk_send(sent, p, meeting_id, "summary_not_started", "ok")
    /\ hist' = [hist EXCEPT !.n = @ + 1]
    /\ UNCHANGED <<users, meeting_notes, lock, req, now, users0, wk, tasks, disk, wlog,
                   payments, user_state>>

----------------------------------------------------------------------------
(* The text replies: twilio_webhook, lines 350-533 *)

\* The texts a user sends without media, one for each branch of the
\* handler ("1", "2", "3" and button payloads go to whatsapp_features
\* before the text branch).
Bodies == {"privacy", "tasks", "done 1", "skip", "score", "english", "hindi",
           "language", "subscribe", "basic", "hello", "ok thanks"}

\* parse_language_choice(body_text) of language_handler_v2: the code of the
\* language a text names, NULL for any other text.
parse_language_choice(body) ==
    CASE body = "english" -> "en"
      [] body = "hindi" -> "hi"
      [] OTHER -> NULL

\* Mutant: the skip words are matched as prefixes, "hello" counts as a skip.
is_skip_Loose(body) == body \in {"skip", "no summary", "no", "cancel", "hello"}

\* body_text.lower() in ['skip', 'no summary', 'no', 'cancel']
is_skip(body) == body \in {"skip", "no summary", "no", "cancel"}

\* Mutant: a text the handler does not know is answered as for a user
\* without a pending job.
reply_branch_NoReprompt(body, pending) ==
    CASE body = "privacy" -> "privacy"
      [] body = "tasks" -> "tasks"
      [] body = "done 1" -> "done"
      [] is_skip(body) /\ pending # 0 -> "skip"
      [] body = "score" -> "score"
      [] parse_language_choice(body) # NULL /\ pending # 0 -> "summary"
      [] body = "language" -> "language_menu"
      [] body = "subscribe" -> "subscribe"
      [] body = "basic" -> "basic"
      [] parse_language_choice(body) # NULL /\ pending = 0 -> "language_set"
      [] OTHER -> "welcome"

\* The branch of the handler that answers a text, in the order of the
\* code: the commands, skip and language choice for a pending job, the
\* menu request, the plans, the language preference, and last the menu
\* again for a user with a pending job or the welcome message.
reply_branch(body, pending) ==
    CASE body = "privacy" -> "privacy"
      [] body = "tasks" -> "tasks"
      [] body = "done 1" -> "done"
      [] is_skip(body) /\ pending # 0 -> "skip"
      [] body = "score" -> "score"
      [] parse_language_choice(body) # NULL /\ pending # 0 -> "summary"
      [] body = "language" -> "language_menu"
      [] body = "subscribe" -> "subscribe"
      [] body = "basic" -> "basic"
      [] parse_language_choice(body) # NULL /\ pending = 0 -> "language_set"
      [] pending # 0 -> "menu_reprompt"
      [] OTHER -> "welcome"

ReplyKinds == {"privacy", "tasks", "done", "summary_skipped", "score",
               "language_menu", "subscribe", "basic", "language_set",
               "menu_reprompt", "welcome", "generating_summary",
               "summary_not_started"}

\* The meetings of the replies: two of u1; u2 has none.
ReplyJobIds == {1, 2}

ReplyMsgTags == [key : [to : Phones, id : ReplyJobIds \cup {0}], kind : ReplyKinds]

\* set_user_language(phone, language_code):
\* UPDATE users SET preferred_language = code WHERE phone = phone
set_user_language(U, phone, code) ==
    IF U[phone].present THEN [U EXCEPT ![phone].preferred_language = code] ELSE U

\* A text that is neither a skip nor a language choice for a pending job:
\* one message is sent, the kind of which the branch decides; a language
\* named without a pending job becomes the preference of the user.
TextReply(p, body) ==
    LET pending == _get_pending_summary_job(meeting_notes, p)
        branch == reply_branch(body, pending)
    IN  /\ Delivered < MaxDeliveries
        /\ branch \notin {"skip", "summary"}
        /\ sent' = send_whatsapp(sent, [to |-> p, id |-> pending], branch)
        /\ users' = IF branch = "language_set"
                    THEN set_user_language(users, p, parse_language_choice(body))
                    ELSE users
        /\ hist' = [hist EXCEPT !.n = @ + 1]
        /\ UNCHANGED <<meeting_notes, rq, lock, req, now, users0, wk, tasks, disk, wlog,
                   payments, user_state>>

\* Lines 401-412: a skip while a summary is pending sets job_state =
\* 'skipped' for the pending meeting; when the UPDATE raises the error is
\* printed and nothing is sent.
SkipReply(p, body, db) ==
    LET pending == _get_pending_summary_job(meeting_notes, p) IN
    /\ Delivered < MaxDeliveries
    /\ reply_branch(body, pending) = "skip"
    /\ meeting_notes' = IF db = "ok"
                        THEN update_meeting(meeting_notes, pending,
                                            [job_state |-> "skipped"])
                        ELSE meeting_notes
    /\ sent' = IF db = "ok"
               THEN send_whatsapp(sent, [to |-> p, id |-> pending], "summary_skipped")
               ELSE sent
    /\ hist' = [hist EXCEPT !.n = @ + 1]
    /\ UNCHANGED <<users, rq, lock, req, now, users0, wk, tasks, disk, wlog,
                   payments, user_state>>

\* A meeting process_audio_job has transcribed.
TranscribedRow(phone, key, text) ==
    [NewMeetingRow(phone, "mina_in.dat", key)
        EXCEPT !.transcript = stored_value(text, "ok"),
               !.detected_language = detect_language(text),
               !.job_state = "transcribed"]

\* api_summarize(meeting_id), lines 1167-1201: 404 / 400 without a row or a
\* transcript; else the transcript is decrypted and summarized, and one
\* UPDATE stores the encrypted summary and the language and sets
\* job_state = 'completed'. Any exception (a transcript that is no token,
\* the summarizer, the UPDATE) ends in the 500 answer with the row as it was.
ApiSummarize(meeting_id, language, o) ==
    /\ Delivered < MaxDeliveries
    /\ meeting_id \in DOMAIN meeting_notes
    /\ meeting_notes[meeting_id].transcript # NULL
    /\ meeting_notes' =
          IF o = "ok" /\ IsToken(meeting_notes[meeting_id].transcript)
          THEN update_meeting(meeting_notes, meeting_id,
                   [summary |-> encrypt_sensitive_data(
                                    summarize_text_multilang(
                                        decrypt_sensitive_data(
                                            meeting_notes[meeting_id].transcript),
                                        language)),
                    chosen_language |-> language,
                    job_state |-> "completed"])
          ELSE meeting_notes
    /\ hist' = [hist EXCEPT !.n = @ + 1]
    /\ UNCHANGED <<users, rq, sent, lock, req, now, users0, wk, tasks, disk, wlog,
                   payments, user_state>>

RInit ==
    /\ users = [p \in Phones |-> NewUserRow]
    /\ users0 = users
    /\ meeting_notes = << TranscribedRow("u1", "SM1", TRANSCRIPT_EN),
                          TranscribedRow("u1", "SM2", TRANSCRIPT_HI) >>
    /\ rq = <<>>
    /\ sent = [t \in ReplyMsgTags |-> 0]
    /\ lock = [p \in Phones |-> 0]
    /\ req = [s \in Slots |-> IdleReq]
    /\ now = 0
    /\ hist = [n |-> 0, fin |-> [k \in Keys |-> 0], overlap |-> [k \in Keys |-> FALSE]]
    /\ wk = WkIdle
    /\ tasks = <<>>
    /\ disk = {}
    /\ wlog = NoRun
    /\ payments = NoPayments
    /\ user_state = NoUserStates

RNext ==
    \/ \E i \in ReplyJobIds : PromptLanguageChoice(i)
    \/ \E p \in Phones, body \in Bodies : TextReply(p, body)
    \/ \E p \in Phones, body \in Bodies, db \in Outcomes : SkipReply(p, body, db)
    \/ \E p \in Phones, lang_choice \in Languages, q \in EnqueueOutcomes :
          LanguageChoiceReply(p, lang_choice, q)
    \/ \E meeting_id \in ReplyJobIds, language \in Languages, o \in Outcomes :
          ApiSummarize(meeting_id, language, o)

ReplySpec == RInit /\ [][RNext]_vars

----------------------------------------------------------------------------
(* Specification of the worker *)

\* The meeting the worker starts from, with its process_audio_job in the
\* queue: the row the intake inserted for the voice note SM1 of u1, or the
\* row api_upload saved for a file of u2
\* (save_meeting_notes_with_sid(phone, tmp_path, None, None, message_sid=None)).
InitialMeetingRow(src) ==
    IF is_url(src) THEN NewMeetingRow("u1", src, "SM1")
    ELSE [NewMeetingRow("u2", src, NULL) EXCEPT !.message_sid = NULL]

\* The files on the disk when the job is enqueued: api_upload saved the
\* upload as TEMP_DIR/app_upload_<time>_<name> (f.save(tmp_path)) and
\* handed that path to the worker; the intake hands over a URL.
InitialDisk(src) ==
    IF is_url(src) THEN {} ELSE {[id |-> 1, file |-> "upload"]}

WInit ==
    /\ users = [p \in Phones |-> NewUserRow]
    /\ users0 = users
    /\ \E src \in AudioSources :
          /\ meeting_notes = << InitialMeetingRow(src) >>
          /\ rq = << <<"process_audio_job", 1, src>> >>
          /\ disk = InitialDisk(src)
    /\ sent = [t \in WkMsgTags |-> 0]
    /\ lock = [p \in Phones |-> 0]
    /\ req = [s \in Slots |-> IdleReq]
    /\ now = 0
    /\ hist = [n |-> 0, fin |-> [k \in Keys |-> 0], overlap |-> [k \in Keys |-> FALSE]]
    /\ wk = WkIdle
    /\ tasks = <<>>
    /\ wlog = NoRun
    /\ payments = NoPayments
    /\ user_state = NoUserStates

WNext ==
    \/ \E read \in Outcomes : PajStart(read)
    \/ \E fails \in 0..RETRY_ATTEMPTS, declared \in DeclaredLengths,
          size \in SizeClasses, send \in Outcomes, db \in DbOutcomes :
              PajFetch(fails, declared, size, send, db)
    \/ \E c1 \in ConvertOutcomes, fails1 \in 0..RETRY_ATTEMPTS,
          c2 \in ConvertOutcomes, fails2 \in 0..RETRY_ATTEMPTS,
          text \in TranscriptTexts, send \in Outcomes, db \in DbOutcomes :
              PajTranscribe(c1, fails1, c2, fails2, text, send, db)
    \/ \E enc \in Outcomes, send \in Outcomes, db \in DbOutcomes :
          PajStore(enc, send, db)
    \/ \E read \in Outcomes, dec \in Outcomes, db \in DbOutcomes :
          CsjStart(read, dec, db)
    \/ \E fails \in 0..RETRY_ATTEMPTS, enc \in Outcomes, db \in DbOutcomes :
          CsjSummarize(fails, enc, db)
    \/ \E fails \in 0..ACTION_ATTEMPTS, created \in ItemCounts, send \in Outcomes :
          CsjActions(fails, created, send)
    \/ \E i \in JobIds : PromptLanguageChoice(i)
    \/ \E p \in Phones, lang_choice \in Languages, q \in EnqueueOutcomes :
          LanguageChoiceReply(p, lang_choice, q)
    \/ \E p \in Phones, body \in Bodies, db \in Outcomes : SkipReply(p, body, db)
    \/ \E meeting_id \in JobIds, language \in Languages, o \in Outcomes :
          ApiSummarize(meeting_id, language, o)

WorkerSpec == WInit /\ [][WNext]_vars

----------------------------------------------------------------------------
(* Properties of the intake *)

\* The step is the arrival of a delivery with idempotency key k.
Arrives(k) ==
    /\ hist'.n = hist.n + 1
    /\ \/ hist'.fin[k] = hist.fin[k] + 1
       \/ \E s \in Slots : /\ req[s].pc = "idle"
                           /\ req'[s].pc # "idle"
                           /\ dedupe_key(req'[s].ev) = k

\* The step is slot s leaving the reservation decision.
Decides(s) == req[s].pc = "reserve" /\ req'[s] # req[s]

\* Minutes of the jobs of one user, by the measured duration of the audio.
RECURSIVE JobMinutes(_, _)
JobMinutes(notes, p) ==
    IF notes = <<>> THEN 0
    ELSE (IF Head(notes).phone = p THEN MediaMinutes(Head(notes).audio_file) ELSE 0)
         + JobMinutes(Tail(notes), p)

\* The balance a user starts with: the row of the initial state, or the
\* row the webhook inserts for a new user.
StartingCredits(p) ==
    IF users0[p].present THEN users0[p].credits ELSE NEW_USER_CREDITS

\* The user never had an active subscription flag (the flag is only ever set).
NeverSubscribed(p) == ~users0[p].sub_active /\ ~users[p].sub_active

\* C1: when the same idempotency key was delivered twice, the second
\* delivery after the first had finished, there is exactly one Job row
\* carrying the key and at most one reply was sent for it.
C1_SameKeyTwice ==
    \A k \in Keys :
        (hist.fin[k] >= 2 /\ ~hist.overlap[k] /\ ~InFlight(k))
            => /\ Cardinality(JobsWithKey(k)) = 1
               /\ Replies(k) <= 1

\* C2: for every idempotency key at most one Job row carries it, in every
\* interleaving of the deliveries.
C2_AtMostOneJobPerKey ==
    \A k \in Keys : Cardinality(JobsWithKey(k)) <= 1

\* C3: a delivery whose key is already carried by a Job is discarded with
\* no side effect: no reply, no change of a user, no Job row created or
\* changed, nothing enqueued, no handler left running.
C3_DuplicateDiscarded ==
    [][ \A k \in Keys :
            (Arrives(k) /\ \E i \in DOMAIN meeting_notes :
                               meeting_notes[i].message_sid = k)
                => /\ sent' = sent
                   /\ users' = users
                   /\ meeting_notes' = meeting_notes
                   /\ rq' = rq
                   /\ req' = req
                   /\ lock' = lock ]_vars

\* C3 witness: a key delivered twice in sequence, whose first delivery made
\* the Job and the one reply, and whose second delivery added nothing.
C3_Witness ==
    \E k \in Keys :
        /\ hist.fin[k] = 2
        /\ ~hist.overlap[k]
        /\ Cardinality(JobsWithKey(k)) = 1
        /\ Replies(k) = 1

\* C4: for a user without a subscription the minutes of the Jobs created
\* never exceed the balance the user started with.
C4_JobsWithinStartingCredits ==
    \A p \in Phones :
        NeverSubscribed(p) => JobMinutes(meeting_notes, p) <= StartingCredits(p)

\* C5: a reservation that succeeds for a user without an active
\* subscription and an audio of m > 0 minutes commits, with the Job row, a
\* balance that is lower by exactly m.
C5_ReservationDebits ==
    [][ \A s \in Slots :
            (/\ Decides(s)
             /\ req'[s].pc = "enqueue"
             /\ ~req[s].row.sub_active
             /\ req[s].minutes > 0)
                => /\ Len(meeting_notes') = Len(meeting_notes) + 1
                   /\ users'[req[s].ev.from].credits
                          = req[s].row.credits - req[s].minutes ]_vars

\* C6: in every committed state the balance of every user is >= 0.
C6_CreditsNonNegative ==
    \A p \in Phones : users[p].credits >= 0

\* C6 witness: a user for whom a reservation was committed and a payment
\* was confirmed.
C6_Witness ==
    \E p \in Phones :
        /\ users[p].present
        /\ users[p].sub_active /\ users[p].sub_expiry # NoExpiry
        /\ \E i \in DOMAIN meeting_notes :
               meeting_notes[i].phone = p /\ MediaMinutes(meeting_notes[i].audio_file) > 0

\* C7: when the minutes to deduct are > 0 and exceed the balance, the
\* reservation is rolled back: no Job row, nothing enqueued, the users
\* table unchanged, the handler finished, and one payment message sent.
C7_InsufficientRollsBack ==
    [][ \A s \in Slots :
            LET d == ToDeduct(req[s].row, req[s].minutes, now)
                k == dedupe_key(req[s].ev) IN
            (Decides(s) /\ d > 0 /\ d > req[s].row.credits)
                => /\ meeting_notes' = meeting_notes
                   /\ rq' = rq
                   /\ users' = users
                   /\ req'[s].pc = "idle"
                   /\ sent'[[key |-> ForDelivery(k), kind |-> "payment"]]
                          = sent[[key |-> ForDelivery(k), kind |-> "payment"]] + 1 ]_vars

\* C7 witness: the user with 0 credits and no subscription sent the
\* two-minute note SM1: payment message, no Job.
C7_Witness ==
    /\ users0["u1"] = UserRow(0, FALSE, NoExpiry)
    /\ users["u1"] = users0["u1"]
    /\ sent[[key |-> ForDelivery("SM1"), kind |-> "payment"]] = 1
    /\ JobsWithKey("SM1") = {}
    /\ hist.fin["SM1"] = 1

\* C8: with a subscription that is active and not expired the Job is
\* created whatever the balance, which stays as it was; in every other
\* case, an active flag with a passed expiry included, the audio duration
\* is what the balance is checked against.
C8_DeductionBySubscription ==
    [][ \A s \in Slots :
            LET row == req[s].row
                p == req[s].ev.from
                valid == row.sub_active
                         /\ (row.sub_expiry = NoExpiry \/ row.sub_expiry > now) IN
            Decides(s)
                => /\ valid => /\ req'[s].pc = "enqueue"
                               /\ users'[p].credits = row.credits
                   /\ ~valid => (req'[s].pc = "enqueue"
                                   <=> ~(req[s].minutes > 0
                                         /\ row.credits < req[s].minutes)) ]_vars

\* C8 witness: a Job was created for a subscriber whose balance does not
\* cover the audio.
C8_Witness ==
    \E s \in Slots :
        /\ req[s].pc = "enqueue"
        /\ req[s].row.sub_active
        /\ req[s].minutes > req[s].row.credits

\* C9: the minutes charged for a Job are > 0 for every audio file, and a
\* user with zero credits and no subscription never gets a Job.
C9_NoFreeJob ==
    \A i \in DOMAIN meeting_notes :
        LET p == meeting_notes[i].phone IN
        /\ MediaMinutes(meeting_notes[i].audio_file) > 0
        /\ ~(NeverSubscribed(p) /\ StartingCredits(p) = 0)

----------------------------------------------------------------------------
(* Properties of the worker *)

\* C10: no plaintext at rest. In every reachable state of the worker, no
\* meeting row holds in its transcript or summary column a text the
\* inference collaborator returned; this covers every path of
\* process_audio_job and complete_summary_job, the path on which
\* encrypt_sensitive_data raises included.
C10_NoPlaintextAtRest ==
    \A i \in DOMAIN meeting_notes :
        /\ meeting_notes[i].transcript \notin Plaintexts
        /\ meeting_notes[i].summary \notin Plaintexts

\* The run the log describes has ended.
RunEnded == wk.pc = "idle" /\ wlog.id \in DOMAIN meeting_notes

\* The steps whose failure is to fail the job.
FailingSteps == {"download", "size", "convert", "transcribe", "encrypt",
                 "db", "summarize"}

\* C11: when a step of process_audio_job or complete_summary_job failed
\* (download, size check, conversion, transcription, encryption, database
\* update, summarization), the run leaves the job in state failed with a
\* failure_reason.
C11_FailureEndsFailed ==
    (RunEnded /\ wlog.errs \cap FailingSteps # {})
        => /\ meeting_notes[wlog.id].job_state = "failed"
           /\ meeting_notes[wlog.id].failure_reason # NULL

\* The failure messages sent to the owner of meeting i.
FailureKinds == {"too_large", "transcription_failed"}

FailureMessages(S, i) ==
    LET owner == meeting_notes[i].phone
        RECURSIVE Sum(_)
        Sum(T) == IF T = {} THEN 0
                  ELSE LET t == CHOOSE x \in T : TRUE IN S[t] + Sum(T \ {t})
    IN  Sum({t \in DOMAIN S : /\ t.key.id = i
                              /\ t.key.to = owner
                              /\ t.kind \in FailureKinds})

\* C12: no silent failure. Every step of process_audio_job or
\* complete_summary_job that sets the state of a job to failed sends a
\* failure message to the owner of the job.
C12_NoSilentFailure ==
    [][ \A i \in DOMAIN meeting_notes :
            (/\ meeting_notes[i].job_state # "failed"
             /\ meeting_notes'[i].job_state = "failed")
                => FailureMessages(sent', i) > FailureMessages(sent, i) ]_vars

\* C13: when the transcription call failed 3 times for a job, the run of
\* process_audio_job leaves the job failed with a failure_reason, and the
\* owner has received exactly one failure notification.
C13_ThreeTranscriptionFailures ==
    (RunEnded /\ wlog.fn = "process_audio_job" /\ wlog.tr_fails >= RETRY_ATTEMPTS)
        => /\ meeting_notes[wlog.id].job_state = "failed"
           /\ meeting_notes[wlog.id].failure_reason # NULL
           /\ FailureMessages(sent, wlog.id) = 1

\* The job states of all meetings.
JobStates == [i \in DOMAIN meeting_notes |-> meeting_notes[i].job_state]

\* The latest meeting of a user, 0 when the user has none.
MostRecentJob(p) ==
    LET mine == {i \in DOMAIN meeting_notes : meeting_notes[i].phone = p}
    IN  IF mine = {} THEN 0 ELSE CHOOSE i \in mine : \A j \in mine : j <= i

AwaitingChoice(p) ==
    /\ MostRecentJob(p) # 0
    /\ meeting_notes[MostRecentJob(p)].job_state = "awaiting_language_choice"

\* The texts that choose nothing from the menu: neither a language nor a skip.
NonChoices == Bodies \ {"skip", "english", "hindi"}

\* The handler answers the text `body` of user p.
Answers(p, body) ==
    IF TextReply(p, body) THEN TRUE ELSE \E db \in Outcomes : SkipReply(p, body, db)

\* C14: while the latest job of a user awaits a menu choice, the handling
\* of a text of that user that is not a menu choice leaves the state of
\* every job as it was.
C14_NonChoiceKeepsStates ==
    [][ \A p \in Phones, body \in NonChoices :
            (AwaitingChoice(p) /\ Answers(p, body)) => JobStates' = JobStates ]_vars

\* A text that chooses nothing was answered with the menu while the job
\* of the user was awaiting the choice, and the job still awaits it.
C14_Witness ==
    \E p \in Phones :
        /\ AwaitingChoice(p)
        /\ sent[[key |-> [to |-> p, id |-> MostRecentJob(p)],
                 kind |-> "menu_reprompt"]] > 0

\* The user has a job that awaits the language choice.
HasAwaitingJob(p) == _get_pending_summary_job(meeting_notes, p) # 0

\* The step sends user p one message with the language menu for the
\* pending job, and no other message.
MenuResent(p) ==
    \E kind \in {"menu_reprompt", "language_menu"} :
        sent' = send_whatsapp(sent,
                              [to |-> p, id |-> _get_pending_summary_job(meeting_notes, p)],
                              kind)

Commands == {"privacy", "tasks", "done 1", "score", "subscribe", "basic"}

C16_ChoiceAdvancesJob ==
    [][ \A p \in Phones, lang_choice \in Languages :
            LET meeting_id == _get_pending_summary_job(meeting_notes, p) IN
            (HasAwaitingJob(p) /\ LanguageChoiceReply(p, lang_choice, "job"))
                => /\ meeting_notes'[meeting_id].job_state # "awaiting_language_choice"
                   /\ rq' = Append(rq, <<"complete_summary_job", meeting_id, lang_choice>>)
      ]_vars

\* The states a job is inserted in.
InsertionStates == {"awaiting_service_selection", "pending_transcription",
                    "pending_full_service"}

\* C17: the job the intake inserts after the reservation has the state
\* awaiting_service_selection, pending_transcription or
\* pending_full_service, and no other.
C17_InsertedJobState ==
    [][ Len(meeting_notes') > Len(meeting_notes)
            => meeting_notes'[Len(meeting_notes')].job_state \in InsertionStates ]_vars

\* The states of a job.
KnownJobStates == InsertionStates \cup
                  {"transcribed", "awaiting_language_choice", "pending_summary",
                   "summary_completed", "skipped", "failed"}

\* C18: in every reachable state the state of every stored job is one of
\* the nine states of a job.
C18_JobStateInRange ==
    \A i \in DOMAIN meeting_notes : meeting_notes[i].job_state \in KnownJobStates

\* Meeting i enters the state s in this step.
Enters(i, s) ==
    /\ meeting_notes[i].job_state # s
    /\ meeting_notes'[i].job_state = s

\* C19: the step of process_audio_job that makes a job transcribed takes it
\* from pending_transcription or pending_full_service and stores the
\* transcript in the same update.
C19_PendingToTranscribed ==
    [][ \A i \in DOMAIN meeting_notes :
            Enters(i, "transcribed")
                => /\ meeting_notes[i].job_state \in
                          {"pending_transcription", "pending_full_service"}
                   /\ meeting_notes'[i].transcript # NULL ]_vars

\* C20: the step of complete_summary_job that makes a job summary_completed
\* takes it from pending_summary, stores the summary in the same update,
\* and the job has a transcript.
C20_PendingSummaryToCompleted ==
    [][ \A i \in DOMAIN meeting_notes :
            Enters(i, "summary_completed")
                => /\ meeting_notes[i].job_state = "pending_summary"
                   /\ meeting_notes'[i].summary # NULL
                   /\ meeting_notes[i].transcript # NULL ]_vars

\* A worker function is running for meeting i.
WorkerRunning(i) == wk.pc # "idle" /\ wk.id = i

\* C21: while a worker function runs for a job, the row of that job is
\* written by the steps of that run only (every step of a run moves wk;
\* the reply handlers leave wk as it is).
C21_SingleWriter ==
    [][ \A i \in DOMAIN meeting_notes :
            (WorkerRunning(i) /\ meeting_notes'[i] # meeting_notes[i]) => wk' # wk ]_vars

\* The latest of the meetings of p that await the choice (the rows of
\* meeting_notes are in the order of created_at).
LatestAwaiting(p) ==
    CHOOSE i \in PendingJobs(meeting_notes, p) :
        \A j \in PendingJobs(meeting_notes, p) : j <= i

\* The step is a menu reply of user p: a language choice or a skip.
MenuReply(p) ==
    IF \E lang_choice \in Languages, q \in EnqueueOutcomes :
           LanguageChoiceReply(p, lang_choice, q)
    THEN TRUE
    ELSE \E db \in Outcomes : SkipReply(p, "skip", db)

\* The jobs of the queue.
Queued(q) == {q[k][2] : k \in DOMAIN q}

\* C22: when several jobs of a user await the choice, a menu reply of the
\* user writes and enqueues the latest of them only: every other row is
\* unchanged, no other job enters the queue and every message of the step
\* is about the latest.
C22_LastPendingWins ==
    [][ \A p \in Phones :
            (Cardinality(PendingJobs(meeting_notes, p)) >= 2 /\ MenuReply(p))
                => /\ \A i \in DOMAIN meeting_notes :
                          i # LatestAwaiting(p) => meeting_notes'[i] = meeting_notes[i]
                   /\ Queued(rq') \subseteq Queued(rq) \cup {LatestAwaiting(p)}
                   /\ \A t \in DOMAIN sent :
                          t.key.id # LatestAwaiting(p) => sent'[t] = sent[t] ]_vars

\* The later meeting of u1 was skipped and its summary job was asked for,
\* while the earlier meeting still awaits the choice untouched.
C22_Witness ==
    /\ meeting_notes[1].job_state = "awaiting_language_choice"
    /\ meeting_notes[2].job_state = "skipped"
    /\ rq = << <<"complete_summary_job", 2, "en">> >>
    /\ sent[[key |-> [to |-> "u1", id |-> 2], kind |-> "summary_skipped"]] = 1
    /\ sent[[key |-> [to |-> "u1", id |-> 1], kind |-> "generating_summary"]] = 0

\* C23: a job whose state is failed keeps that state in every later step
\* of the worker, of the reply handler and of the API.
C23_FailedIsTerminal ==
    [][ \A i \in DOMAIN meeting_notes :
            meeting_notes[i].job_state = "failed"
                => meeting_notes'[i].job_state = "failed" ]_vars

\* C24: no run of process_audio_job or complete_summary_job ends with an
\* exception raised to the caller, whichever collaborator fails: the worker
\* is idle after every run and takes the next job.
C24_NoExceptionEscapes ==
    /\ wk.pc # "raised"
    /\ (wlog.fn # "NULL" /\ wk.pc \notin {"fetch", "transcribe", "store",
                                           "summarize", "actions"})
           => wk = WkIdle

\* A run ended in which the download failed and the UPDATE of the handler
\* raised as well (the job is not failed), and the worker is idle.
C24_Witness ==
    /\ RunEnded
    /\ {"download", "db"} \subseteq wlog.errs
    /\ meeting_notes[wlog.id].job_state # "failed"
    /\ wk = WkIdle

\* The state and the failure reason of meeting i.
Outcome(notes, i) == <<notes[i].job_state, notes[i].failure_reason>>

\* C25: the run in which send_whatsapp raises leaves the job with the state
\* and the failure_reason of the same run with the send succeeding (every
\* UPDATE succeeding in both). Every send of process_audio_job is in the
\* step that ends the run or stops it.
C25_SendFailureNotFatal ==
    [][ /\ \A fails \in 0..RETRY_ATTEMPTS, declared \in DeclaredLengths,
              size \in SizeClasses :
              PajFetch(fails, declared, size, "raise", "ok")
                  => Outcome(meeting_notes', wk.id)
                      = Outcome(notes_after_fetch(meeting_notes, wk.id, wk.src,
                                                  fetched(wk.src, fails, declared),
                                                  size, "ok", "ok"), wk.id)
        /\ \A c1 \in ConvertOutcomes, fails1 \in 0..RETRY_ATTEMPTS,
              c2 \in ConvertOutcomes, fails2 \in 0..RETRY_ATTEMPTS,
              text \in TranscriptTexts :
              PajTranscribe(c1, fails1, c2, fails2, text, "raise", "ok")
                  => Outcome(meeting_notes', wk.id)
                      = Outcome(notes_after_transcribe(meeting_notes, wk.id,
                                    transcribed_ok(wk.src, c1, fails1, c2, fails2),
                                    "ok", "ok"), wk.id)
        /\ \A enc \in Outcomes :
              PajStore(enc, "raise", "ok")
                  => Outcome(meeting_notes', wk.id)
                      = Outcome(notes_after_store(meeting_notes, wk.id, wk.src,
                                                  wk.text, enc, "ok"), wk.id)
      ]_vars

\* C26: the step of complete_summary_job that follows the UPDATE of the
\* summary, the extraction of the action items, leaves the row of the job
\* as it is, whether the extraction, the creation of a task or the
\* message about the items fails or not.
C26_ActionsKeepJob ==
    [][ (wk.pc = "actions" /\ wk' # wk)
            => meeting_notes'[wk.id] = meeting_notes[wk.id] ]_vars

\* A run of complete_summary_job ended with a failed extraction and the
\* job is summary_completed with its summary and no failure reason.
C26_Witness ==
    /\ RunEnded
    /\ wlog.fn = "complete_summary_job"
    /\ "actions" \in wlog.errs
    /\ meeting_notes[wlog.id].job_state = "summary_completed"
    /\ meeting_notes[wlog.id].summary # NULL
    /\ meeting_notes[wlog.id].failure_reason = NULL

\* The temporary files of meeting i on the disk of the worker.
TempFiles(i) == {f \in disk : f.id = i}

\* C27: once process_audio_job has returned, no temporary file of the job
\* is left on the disk: neither the audio the job was given or fetched nor
\* a file the conversion created.
C27_NoTempFileLeft ==
    (wlog.fn = "process_audio_job" /\ wk.pc = "idle") => TempFiles(wlog.id) = {}


\* C28: a download whose Content-Length is above MAX_FILE_MB is rejected
\* before a byte of the body is written to the file, and the job of the
\* run ends failed (unless none of its UPDATEs reached the database).
C28_FailFastOnSize ==
    (wlog.fn = "process_audio_job" /\ wlog.cl_too_large) =>
        /\ ~wlog.body
        /\ (RunEnded /\ "db" \notin wlog.errs) =>
               meeting_notes[wlog.id].job_state = "failed"


\* The run of process_audio_job measured a file above MAX_FILE_MB.
MeasuredTooLarge == wlog.fn = "process_audio_job" /\ "too_large" \in wlog.errs

C30_ConvertOnce ==
    [][ (wk.pc = "transcribe" /\ wk' # wk /\ need_convert(wk.src)) =>
            /\ wlog'.conv = 1
            /\ (wlog'.conv_ok = 0 => wlog'.tr_files = {"in"}) ]_vars

----------------------------------------------------------------------------
(* with_retries: src/worker_multilang_production_fixed.py, lines 89-101 *)

\* The largest value of WORKER_RETRY_ATTEMPTS that is tried.
MaxAttempts == 4

\* RETRY_ATTEMPTS = int(os.getenv("WORKER_RETRY_ATTEMPTS", "3")): any
\* integer the environment gives; the loop sees 0 for a negative one.
AttemptsConfigured == 0..MaxAttempts

\* What fn does at each of its calls.
FnOutcomes == [1..MaxAttempts -> {"ok", "raise"}]

\* The value fn returns at its k-th call, the exception it raises there,
\* last_exc = None, and the TypeError of `raise None`.
Result(k) == [kind |-> "result", call |-> k]
Failure(k) == [kind |-> "failure", call |-> k]
NoExc == [kind |-> "None", call |-> 0]
RaiseNoneTypeError == [kind |-> "TypeError", call |-> 0]

\* initial_delay=0.8 in tenths of a second, and backoff=2.0
INITIAL_DELAY == 8
BACKOFF == 2

\* The frame of with_retries(fn, attempts) before the loop.
RetryFrame(attempts, outs) ==
    [pc |-> "retry_loop", attempts |-> attempts, outs |-> outs, i |-> 0,
     calls |-> 0, last_exc |-> NoExc, delay |-> INITIAL_DELAY, slept |-> 0,
     out |-> NoExc]

\* Lines 92-100: one pass of `for i in range(attempts)`: fn is called; its
\* value is returned, or its exception is kept in last_exc and, unless this
\* was the last pass, the function sleeps and doubles the delay.
WithRetriesPass ==
    /\ wk.pc = "retry_loop"
    /\ wk.i < wk.attempts
    /\ LET k == wk.calls + 1
       IN  wk' = IF wk.outs[k] = "ok"
                 THEN [wk EXCEPT !.pc = "retry_returned", !.calls = k,
                                 !.out = Result(k)]
                 ELSE IF wk.i < wk.attempts - 1
                      THEN [wk EXCEPT !.calls = k, !.last_exc = Failure(k),
                                      !.i = @ + 1,
                                      !.slept = @ + wk.delay,
                                      !.delay = @ * BACKOFF]
                      ELSE [wk EXCEPT !.calls = k, !.last_exc = Failure(k),
                                      !.i = @ + 1]
    /\ UNCHANGED <<users, meeting_notes, rq, sent, lock, req, now, hist, users0,
                   tasks, disk, wlog, payments, user_state>>

\* Line 101, after the loop: `raise last_exc`. With last_exc = None the
\* statement raises TypeError (exceptions must derive from BaseException).
WithRetriesRaise ==
    /\ wk.pc = "retry_loop"
    /\ wk.i >= wk.attempts
    /\ wk' = [wk EXCEPT !.pc = "retry_raised",
                        !.out = IF wk.last_exc = NoExc THEN RaiseNoneTypeError
                                ELSE wk.last_exc]
    /\ UNCHANGED <<users, meeting_notes, rq, sent, lock, req, now, hist, users0,
                   tasks, disk, wlog, payments, user_state>>

\* A call of with_retries in a worker that holds no job.
RetryInit ==
    /\ users = [p \in Phones |-> NewUserRow]
    /\ users0 = users
    /\ meeting_notes = <<>>
    /\ rq = <<>>
    /\ sent = [t \in WkMsgTags |-> 0]
    /\ lock = [p \in Phones |-> 0]
    /\ req = [s \in Slots |-> IdleReq]
    /\ now = 0
    /\ hist = [n |-> 0, fin |-> [k \in Keys |-> 0], overlap |-> [k \in Keys |-> FALSE]]
    /\ \E attempts \in AttemptsConfigured, outs \in FnOutcomes :
           wk = RetryFrame(attempts, outs)
    /\ tasks = <<>>
    /\ disk = {}
    /\ wlog = NoRun
    /\ payments = NoPayments
    /\ user_state = NoUserStates

RetryNext ==
    \/ WithRetriesPass
    \/ WithRetriesRaise

RetrySpec == RetryInit /\ [][RetryNext]_vars

\* The calls of fn among the first n that raise, all of them.
AllFail(outs, n) == \A k \in 1..n : outs[k] = "raise"

\* C31: with_retries(fn, attempts=n) has called fn at most n times when it
\* ends; when it returns, it returns the value of the first call that did not
\* raise and that call was the last one; when it raises, fn has raised n
\* times in a row and the exception is the one of the last call. This for
\* every n that WORKER_RETRY_ATTEMPTS can give.
C31_BoundedRetries ==
    /\ wk.pc \in {"retry_loop", "retry_returned", "retry_raised"}
           => wk.calls <= wk.attempts
    /\ wk.pc = "retry_returned"
           => /\ wk.out = Result(wk.calls)
              /\ wk.outs[wk.calls] = "ok"
              /\ AllFail(wk.outs, wk.calls - 1)
    /\ wk.pc = "retry_raised"
           => /\ wk.calls = wk.attempts
              /\ AllFail(wk.outs, wk.attempts)
              /\ wk.out = Failure(wk.attempts)

----------------------------------------------------------------------------
(* The payment webhook: src/payments.py handle_webhook_event *)

\* interested = {...}, lines 222-230
INTERESTED_EVENTS == {"payment_link.paid", "payment_link.payment_paid",
                      "payment.captured", "payment.authorized",
                      "payment.failed", "order.paid"}

\* paid_states = {"captured", "paid", "authorized"}, line 327
PAID_STATES == {"captured", "paid", "authorized"}

\* The payloads the provider delivers: the capture of payment pay_1 of u1,
\* its authorization before that, and an event the handler is not
\* interested in. `status` is the entity's status as sent.
PayEvents ==
    { [event |-> "payment.captured",   id |-> "pay_1", status |-> "Captured",
       contact |-> "u1"],
      [event |-> "payment.authorized", id |-> "pay_1", status |-> "authorized",
       contact |-> NULL],
      [event |-> "refund.created",     id |-> "pay_1", status |-> "processed",
       contact |-> "u1"] }

PaymentIds == {ev.id : ev \in PayEvents}

\* status_raw.lower()
lower(status) ==
    CASE status = "Captured" -> "captured"
      [] OTHER -> status

\* The deliveries of the webhook, each handled by its own call.
PayCalls == 1..MaxDeliveries

\* A call that has not started, and the table before any payment.
NoPayEvent == [event |-> NULL, id |-> NULL, status |-> NULL, contact |-> NULL]

NoPayCall ==
    [pc |-> "idle", ev |-> NoPayEvent, phone |-> NULL, prev_status |-> NULL,
     latest_status |-> NULL, activated |-> FALSE, status |-> NULL]

NoPaymentRow == [present |-> FALSE, status |-> NULL, phone |-> NULL]

\* record_payment(phone, razorpay_payment_id, amount, currency, status): the
\* row of the payment is inserted, or its status (and a phone it lacked)
\* updated.
record_payment(P, id, phone, status) ==
    [P EXCEPT ![id] = [present |-> TRUE, status |-> status,
                       phone |-> IF phone # NULL THEN phone ELSE @.phone]]

\* Lines 218-270: the event is read; an event outside the interested set is
\* ignored, otherwise the id, the status and the contact of the payment
\* entity are taken.
PwReceive(d, ev) ==
    /\ req[d].pc = "idle"
    /\ \A c \in PayCalls : c < d => req[c].pc # "idle"
    /\ req' = [req EXCEPT ![d] =
                 IF ev.event \in INTERESTED_EVENTS
                 THEN [NoPayCall EXCEPT !.pc = "select", !.ev = ev,
                                        !.phone = ev.contact]
                 ELSE [NoPayCall EXCEPT !.pc = "done", !.ev = ev,
                                        !.status = "ignored"]]
    /\ UNCHANGED <<users, meeting_notes, rq, sent, lock, now, hist, users0, wk,
                   tasks, disk, wlog, payments, user_state>>

\* Lines 272-302: SELECT of the payment row by razorpay_payment_id, for the
\* previous status and, when the payload had no contact, the phone. A
\* failing lookup is logged and the handler goes on without a row.
PwSelect(d, db) ==
    /\ req[d].pc = "select"
    /\ LET row == payments[req[d].ev.id]
           found == db = "ok" /\ row.present
       IN  req' = [req EXCEPT ![d].pc = "record",
                              ![d].prev_status =
                                  IF found THEN lower(row.status) ELSE NULL,
                              ![d].phone =
                                  IF found /\ req[d].phone = NULL
                                  THEN row.phone ELSE req[d].phone]
    /\ UNCHANGED <<users, meeting_notes, rq, sent, lock, now, hist, users0, wk,
                   tasks, disk, wlog, payments, user_state>>

\* Lines 304-324: the payment is recorded; latest_status is the status the
\* helper returns, or the status of the payload when it raises.
PwRecord(d, db) ==
    /\ req[d].pc = "record"
    /\ LET status == lower(req[d].ev.status)
       IN  /\ payments' = IF db = "ok"
                          THEN record_payment(payments, req[d].ev.id,
                                              req[d].phone, status)
                          ELSE payments
           /\ req' = [req EXCEPT ![d].pc = "activate",
                                 ![d].latest_status = status]
    /\ UNCHANGED <<users, meeting_notes, rq, sent, lock, now, hist, users0, wk,
                   tasks, disk, wlog, user_state>>

\* Lines 326-335: activate when the payment now is in a paid state and was
\* not in one before.
should_activate(latest_status, prev_status) ==
    /\ latest_status \in PAID_STATES
    /\ prev_status \notin PAID_STATES

\* Lines 337-357: set_subscription_active(phone, days=30) when the payment
\* became paid and a phone is known, and the summary that is returned.
PwActivate(d, db) ==
    /\ req[d].pc = "activate"
    /\ LET call == should_activate(req[d].latest_status, req[d].prev_status)
                   /\ req[d].phone # NULL
           done == call /\ db = "ok"
       IN  /\ users' = IF done
                       THEN [users EXCEPT ![req[d].phone] =
                                 set_subscription_active(@, now)]
                       ELSE users
           /\ req' = [req EXCEPT ![d].pc = "done", ![d].activated = done,
                                 ![d].status = "ok"]
    /\ UNCHANGED <<meeting_notes, rq, sent, lock, now, hist, users0, wk,
                   tasks, disk, wlog, payments, user_state>>

PayInit ==
    /\ users = [p \in Phones |-> NewUserRow]
    /\ users0 = users
    /\ meeting_notes = <<>>
    /\ rq = <<>>
    /\ sent = [t \in MsgTags |-> 0]
    /\ lock = [p \in Phones |-> 0]
    /\ req = [d \in PayCalls |-> NoPayCall]
    /\ now = 0
    /\ hist = [n |-> 0, fin |-> [k \in Keys |-> 0], overlap |-> [k \in Keys |-> FALSE]]
    /\ wk = WkIdle
    /\ tasks = <<>>
    /\ disk = {}
    /\ wlog = NoRun
    /\ payments = [id \in PaymentIds |-> NoPaymentRow]
    /\ user_state = NoUserStates

PayNext ==
    \/ \E d \in PayCalls, ev \in PayEvents : PwReceive(d, ev)
    \/ \E d \in PayCalls, db \in Outcomes : PwSelect(d, db)
    \/ \E d \in PayCalls, db \in Outcomes : PwRecord(d, db)
    \/ \E d \in PayCalls, db \in Outcomes : PwActivate(d, db)

PaymentSpec == PayInit /\ [][PayNext]_vars

\* The calls that handled event ev and activated the subscription.
Activations(ev) == {d \in PayCalls : req[d].ev = ev /\ req[d].activated}

\* C32: however often one paid payment event is handled, one call after the
\* other or several at a time, at most one of the calls activates the
\* subscription.
C32_ActivatesOnce ==
    \A ev \in PayEvents :
        lower(ev.status) \in PAID_STATES => Cardinality(Activations(ev)) <= 1

----------------------------------------------------------------------------
(* The invoice flow: src/billing_plugin/invoice_flow.py *)

FLOW_NAME == "billing_invoice_flow"

STATES == {"INIT", "ITEMS_EXTRACTED", "CUSTOMER_PENDING", "PAYMENT_PENDING",
           "CONFIRMATION", "COMPLETED"}

\* A conversation state "<name>:<step>" as get_user_state returns it, and
\* None. f"{FLOW_NAME}:{new_state}" is FlowState(new_state).
NoState == [name |-> NULL, step |-> NULL]
FlowState(step) == [name |-> FLOW_NAME, step |-> step]

\* The state of another billing flow and a state of no billing flow.
OTHER_BILLING_STATE == [name |-> "billing_payment_flow", step |-> "AMOUNT"]
OTHER_STATE == [name |-> "onboarding", step |-> "LANGUAGE"]

\* state.startswith(FLOW_NAME), state.startswith("billing_") and
\* state.split(":")[1]
startswith_FLOW_NAME(state) == state.name = FLOW_NAME
startswith_billing(state) == state.name \in {FLOW_NAME, OTHER_BILLING_STATE.name}
current_of(state) == state.step

\* Dictionaries (meta, updates, initial_payload) over the keys in use. A key
\* the dictionary lacks has the value ABSENT; None is NULL and [] is
\* EMPTY_LIST.
ABSENT == "absent"
EMPTY_LIST == "[]"
MetaKeys == {"items", "customer", "payment", "draft_invoice", "confirm", "note"}
EmptyDict == [k \in MetaKeys |-> ABSENT]

\* d.get(k) is truthy.
Truthy(v) == v \notin {ABSENT, NULL, EMPTY_LIST}

\* meta.update(updates)
dict_update(meta, updates) ==
    [k \in MetaKeys |-> IF updates[k] # ABSENT THEN updates[k] ELSE meta[k]]

\* Lines 55-60: the meta of a fresh flow.
FreshMeta ==
    [EmptyDict EXCEPT !["items"] = EMPTY_LIST, !["customer"] = NULL,
                      !["payment"] = NULL, !["draft_invoice"] = NULL]

\* The dictionaries callers pass as updates, and as initial_payload (the
\* empty one stands for None as well: `if initial_payload` is false for
\* both).
UpdatesGiven ==
    { EmptyDict,
      [EmptyDict EXCEPT !["items"] = "2 x tea"],
      [EmptyDict EXCEPT !["customer"] = "acme"],
      [EmptyDict EXCEPT !["payment"] = "cash"],
      [EmptyDict EXCEPT !["payment"] = "upi", !["confirm"] = "True"],
      [EmptyDict EXCEPT !["confirm"] = "True"],
      [EmptyDict EXCEPT !["note"] = "rush"] }

PayloadsGiven == { EmptyDict, [EmptyDict EXCEPT !["items"] = "2 x tea"] }

\* The users of the invoice flow.
FlowPhones == {"u1"}

\* get_user_state(phone) and set_user_state(phone, state, meta) on the
\* stored conversation state.
get_user_state(US, phone) == US[phone]
set_user_state(US, phone, state, meta) ==
    [US EXCEPT ![phone] = [state |-> state, meta |-> meta]]

\* _next_action_for_state
next_action_for_state(state) ==
    CASE state = "INIT" -> "extract_items"
      [] state = "ITEMS_EXTRACTED" -> "request_customer"
      [] state = "CUSTOMER_PENDING" -> "request_customer"
      [] state = "PAYMENT_PENDING" -> "request_payment"
      [] state = "CONFIRMATION" -> "request_confirmation"
      [] state = "COMPLETED" -> "none"
      [] OTHER -> "unknown"

\* A call, with the dictionary it was given (updates, initial_payload), and
\* the dictionary it returns; keys the result lacks are NULL (meta:
\* EmptyDict).
FlowResult(fn, given, status, state, next_action, meta) ==
    [fn |-> fn, given |-> given, status |-> status, state |-> state,
     next_action |-> next_action, meta |-> meta]

NoFlowCall == FlowResult(NULL, EmptyDict, NULL, NULL, NULL, EmptyDict)

\* Mutant: a flow in progress is started afresh.
resumes_Never(state) == FALSE

\* Line 43: `if state and state.startswith(FLOW_NAME)`
resumes(state) == state # NoState /\ startswith_FLOW_NAME(state)

\* Line 47: another billing flow is active.
blocked(state) ==
    state # NoState /\ startswith_billing(state) /\ ~startswith_FLOW_NAME(state)

\* The updates given to the flow of a user since it started (history).
supplied_after(h, phone, status, updates) ==
    CASE status = "started" -> [h EXCEPT ![phone] = updates]
      [] status \in {"advanced", "waiting"} ->
             [h EXCEPT ![phone] = dict_update(@, updates)]
      [] status = "cancelled" -> [h EXCEPT ![phone] = EmptyDict]
      [] OTHER -> h

\* start_or_resume_flow(phone, initial_payload), lines 32-71.
StartOrResumeFlow(phone, initial_payload) ==
    LET us == get_user_state(user_state, phone)
        meta == IF initial_payload # EmptyDict
                THEN dict_update(FreshMeta, initial_payload) ELSE FreshMeta
        result ==
            CASE resumes(us.state) ->
                   FlowResult("start_or_resume_flow", initial_payload, "resumed",
                              current_of(us.state),
                              next_action_for_state(current_of(us.state)), us.meta)
              [] ~resumes(us.state) /\ blocked(us.state) ->
                   FlowResult("start_or_resume_flow", initial_payload, "blocked", NULL, NULL,
                              EmptyDict)
              [] OTHER ->
                   FlowResult("start_or_resume_flow", initial_payload, "started", "INIT",
                              "extract_items", EmptyDict)
    IN  /\ user_state' = IF result.status = "started"
                         THEN set_user_state(user_state, phone,
                                             FlowState("INIT"), meta)
                         ELSE user_state
        /\ req' = result
        /\ hist' = supplied_after(hist, phone, result.status, initial_payload)
        /\ UNCHANGED <<users, meeting_notes, rq, sent, lock, now, users0, wk,
                       tasks, disk, wlog, payments>>

\* Mutant: the confirmation is read from the stored meta.
confirmed_FromMeta(meta, updates) == meta["confirm"] = "True"

\* Line 131: `updates.get("confirm") is True`
confirmed(meta, updates) == updates["confirm"] = "True"

\* Lines 106-134: the state the flow moves to, or the state it is in when
\* it stays.
next_state(current, meta, updates) ==
    CASE current = "INIT" ->
           IF Truthy(meta["items"]) THEN "ITEMS_EXTRACTED" ELSE current
      [] current = "ITEMS_EXTRACTED" ->
           IF Truthy(meta["customer"]) THEN "PAYMENT_PENDING"
           ELSE "CUSTOMER_PENDING"
      [] current = "CUSTOMER_PENDING" ->
           IF Truthy(meta["customer"]) THEN "PAYMENT_PENDING" ELSE current
      [] current = "PAYMENT_PENDING" ->
           IF Truthy(meta["payment"]) THEN "CONFIRMATION" ELSE current
      [] current = "CONFIRMATION" ->
           IF confirmed(meta, updates) THEN "COMPLETED" ELSE current
      [] OTHER -> current

\* The next_action of a call that stays.
await_action(current) ==
    CASE current = "INIT" -> "await_items"
      [] current = "CUSTOMER_PENDING" -> "await_customer"
      [] current = "PAYMENT_PENDING" -> "await_payment_details"
      [] current = "CONFIRMATION" -> "await_confirmation"
      [] OTHER -> NULL

\* advance_flow(phone, updates), lines 74-146: _transition stores the new
\* state with the merged meta (line 178); _stay returns the merged meta
\* and stores nothing (lines 187-193).
AdvanceFlow(phone, updates) ==
    LET us == get_user_state(user_state, phone)
        active == us.state # NoState /\ startswith_FLOW_NAME(us.state)
        current == current_of(us.state)
        meta == dict_update(us.meta, updates)
        new == next_state(current, meta, updates)
        result ==
            CASE ~active ->
                   FlowResult("advance_flow", updates, "error", NULL, NULL, EmptyDict)
              [] active /\ current \notin STATES ->
                   FlowResult("advance_flow", updates, "error", current, NULL, EmptyDict)
              [] active /\ current = "COMPLETED" ->
                   FlowResult("advance_flow", updates, "done", "COMPLETED", NULL, EmptyDict)
              [] active /\ current \in STATES \ {"COMPLETED"} /\ new # current ->
                   FlowResult("advance_flow", updates, "advanced", new,
                              next_action_for_state(new), EmptyDict)
              [] OTHER ->
                   FlowResult("advance_flow", updates, "waiting", current,
                              await_action(current), meta)
    IN  /\ user_state' = IF result.status = "advanced"
                         THEN set_user_state(user_state, phone,
                                             FlowState(new), meta)
                         ELSE user_state
        /\ req' = result
        /\ hist' = supplied_after(hist, phone, result.status, updates)
        /\ UNCHANGED <<users, meeting_notes, rq, sent, lock, now, users0, wk,
                       tasks, disk, wlog, payments>>

\* cancel_flow(phone), lines 149-159.
CancelFlow(phone) ==
    LET us == get_user_state(user_state, phone)
        active == us.state # NoState /\ startswith_FLOW_NAME(us.state)
        status == IF active THEN "cancelled" ELSE "no_active_flow"
    IN  /\ user_state' = IF active
                         THEN set_user_state(user_state, phone, NoState, EmptyDict)
                         ELSE user_state
        /\ req' = FlowResult("cancel_flow", EmptyDict, status, NULL, NULL, EmptyDict)
        /\ hist' = supplied_after(hist, phone, status, EmptyDict)
        /\ UNCHANGED <<users, meeting_notes, rq, sent, lock, now, users0, wk,
                       tasks, disk, wlog, payments>>

\* A user without a conversation state, in another billing flow, or in a
\* state of no billing flow; no call has been made.
FlowInit ==
    /\ users = [p \in Phones |-> NewUserRow]
    /\ users0 = users
    /\ meeting_notes = <<>>
    /\ rq = <<>>
    /\ sent = [t \in MsgTags |-> 0]
    /\ lock = [p \in Phones |-> 0]
    /\ req = NoFlowCall
    /\ now = 0
    /\ hist = [p \in FlowPhones |-> EmptyDict]
    /\ wk = WkIdle
    /\ tasks = <<>>
    /\ disk = {}
    /\ wlog = NoRun
    /\ payments = NoPayments
    /\ \E s \in {NoState, OTHER_BILLING_STATE, OTHER_STATE} :
           user_state = [p \in FlowPhones |-> [state |-> s, meta |-> EmptyDict]]

FlowNext ==
    \/ \E p \in FlowPhones, initial_payload \in PayloadsGiven :
           StartOrResumeFlow(p, initial_payload)
    \/ \E p \in FlowPhones, updates \in UpdatesGiven : AdvanceFlow(p, updates)
    \/ \E p \in FlowPhones : CancelFlow(p)

FlowSpec == FlowInit /\ [][FlowNext]_vars

\* C33: start_or_resume_flow returns, for a flow it resumes, a session that
\* holds every update given to the flow so far, those of the calls that left
\* the state as it was included.
C33_FullyResumable ==
    \A p \in FlowPhones :
        (req.fn = "start_or_resume_flow" /\ req.status = "resumed")
            => \A k \in MetaKeys : hist[p][k] # ABSENT => req.meta[k] = hist[p][k]


\* C34: start_or_resume_flow never resets or replaces a flow: called for a
\* user whose state is a state of the invoice flow it returns 'resumed',
\* called while another billing flow is active it returns 'blocked', and in
\* both cases the stored state and meta stay as they were.
C34_OneActiveFlow ==
    [][ \A p \in FlowPhones :
            req'.fn = "start_or_resume_flow" =>
                /\ user_state[p].state.name = FLOW_NAME =>
                       (req'.status = "resumed" /\ user_state'[p] = user_state[p])
                /\ user_state[p].state = OTHER_BILLING_STATE =>
                       (req'.status = "blocked" /\ user_state'[p] = user_state[p])
      ]_vars

\* A flow that waits for the payment details, with its customer stored, has
\* been resumed.
C34_Witness ==
    /\ req.fn = "start_or_resume_flow"
    /\ req.status = "resumed"
    /\ req.state = "PAYMENT_PENDING"
    /\ req.meta["customer"] = "acme"
    /\ user_state["u1"].state = FlowState("PAYMENT_PENDING")


\* The transitions advance_flow may make.
FlowTransitions ==
    { <<"INIT", "ITEMS_EXTRACTED">>,
      <<"ITEMS_EXTRACTED", "CUSTOMER_PENDING">>,
      <<"ITEMS_EXTRACTED", "PAYMENT_PENDING">>,
      <<"CUSTOMER_PENDING", "PAYMENT_PENDING">>,
      <<"PAYMENT_PENDING", "CONFIRMATION">>,
      <<"CONFIRMATION", "COMPLETED">> }

\* The call that made the step was advance_flow with the key confirm set to
\* True in its updates.
GivenConfirm ==
    /\ req'.fn = "advance_flow"
    /\ req'.given["confirm"] = "True"

\* C39: a call of advance_flow leaves the stored state as it is or makes one
\* of the transitions INIT -> ITEMS_EXTRACTED, ITEMS_EXTRACTED ->
\* CUSTOMER_PENDING or PAYMENT_PENDING, CUSTOMER_PENDING -> PAYMENT_PENDING,
\* PAYMENT_PENDING -> CONFIRMATION, CONFIRMATION -> COMPLETED (never one
\* backward), and it enters COMPLETED only from CONFIRMATION and only when
\* its updates carry confirm = True.
C39_FlowTransitions ==
    [][ \A p \in FlowPhones :
            (req'.fn = "advance_flow" /\ user_state'[p] # user_state[p]) =>
                /\ user_state[p].state.name = FLOW_NAME
                /\ user_state'[p].state.name = FLOW_NAME
                /\ <<user_state[p].state.step, user_state'[p].state.step>>
                       \in FlowTransitions
                /\ user_state'[p].state.step = "COMPLETED" => GivenConfirm
      ]_vars

\* A flow has been completed by a call that confirmed it.
C39_Witness ==
    /\ req.fn = "advance_flow"
    /\ req.status = "advanced"
    /\ req.state = "COMPLETED"
    /\ req.given["confirm"] = "True"
    /\ user_state["u1"].state = FlowState("COMPLETED")
    /\ Truthy(user_state["u1"].meta["payment"])


\* C40: start_or_resume_flow, called for a user whose invoice flow is
\* COMPLETED, starts a new flow: it returns 'started' and the stored state
\* is INIT, without a cancel_flow in between.
C40_RestartAfterCompleted ==
    [][ \A p \in FlowPhones :
            (req'.fn = "start_or_resume_flow"
                 /\ user_state[p].state = FlowState("COMPLETED")) =>
                /\ req'.status = "started"
                /\ user_state'[p].state = FlowState("INIT")
      ]_vars


\* The complete_summary_job entries of meeting i in the queue.
SummaryJobs(i) ==
    {k \in DOMAIN rq : rq[k][1] = "complete_summary_job" /\ rq[k][2] = i}

\* C36: whatever texts the user sends, the queue is given at most one
\* complete_summary_job for a meeting (no worker takes jobs off the queue
\* here, so the queue holds every job that was enqueued).
C36_SummaryEnqueuedOnce ==
    \A i \in DOMAIN meeting_notes : Cardinality(SummaryJobs(i)) <= 1


----------------------------------------------------------------------------
(* The media file of the intake webhook *)

\* The handler in slot s returns in this step.
Exits(s) == req[s].pc # "idle" /\ req'[s].pc = "idle"

\* C37: on every exit of the intake webhook after the download (the job was
\* created, the balance was insufficient, an exception was raised) the media
\* file the handler downloaded is no longer on the disk.
C37_MediaFileDeleted ==
    [][\A s \in Slots : Exits(s) => local_path(s, req[s].ev) \notin disk']_vars


----------------------------------------------------------------------------
(* From the intake to the worker: one job, handed over by the webhook and
   run by process_audio_job *)

\* The state of the webhook after lines 602-626 for a delivery of u1 whose
\* balance sufficed: the users row as the reservation left it, the meeting
\* row committed, the local file removed, the enqueue still to come.
Reserved(ev, row) ==
    /\ ev.from = "u1"
    /\ ~InsufficientBalance(ToDeduct(row, MediaMinutes(ev.media), 0), row.credits)

JInit ==
    \E ev \in Events, row \in InitialUserRows :
        /\ Reserved(ev, row)
        /\ users = [p \in Phones |->
                      IF p = ev.from
                      THEN UserRowAfterReservation(row,
                               ToDeduct(row, MediaMinutes(ev.media), 0),
                               MediaMinutes(ev.media))
                      ELSE NoUserRow]
        /\ users0 = [p \in Phones |-> IF p = ev.from THEN row ELSE NoUserRow]
        /\ meeting_notes = << NewMeetingRow(ev.from, ev.media, dedupe_key(ev)) >>
        /\ req = [s \in Slots |->
                    IF s = 1
                    THEN [IdleReq EXCEPT !.pc = "enqueue", !.ev = ev,
                                         !.minutes = MediaMinutes(ev.media),
                                         !.row = row, !.meeting_id = 1]
                    ELSE IdleReq]
        /\ hist = [n |-> 1, fin |-> [k \in Keys |-> 0],
                   overlap |-> [k \in Keys |-> FALSE]]
        /\ rq = <<>>
        /\ sent = [t \in MsgTags \cup WkMsgTags |-> 0]
        /\ lock = [p \in Phones |-> 0]
        /\ now = 0
        /\ wk = WkIdle
        /\ tasks = <<>>
        /\ disk = {}
        /\ wlog = NoRun
        /\ payments = NoPayments
        /\ user_state = NoUserStates

\* The steps of the RQ worker on a process_audio_job.
JWorker ==
    \/ \E read \in Outcomes : PajStart(read)
    \/ \E fails \in 0..RETRY_ATTEMPTS, declared \in DeclaredLengths,
          size \in SizeClasses, send \in Outcomes, db \in DbOutcomes :
              PajFetch(fails, declared, size, send, db)
    \/ \E c1 \in ConvertOutcomes, fails1 \in 0..RETRY_ATTEMPTS,
          c2 \in ConvertOutcomes, fails2 \in 0..RETRY_ATTEMPTS,
          text \in TranscriptTexts, send \in Outcomes, db \in DbOutcomes :
              PajTranscribe(c1, fails1, c2, fails2, text, send, db)
    \/ \E enc \in Outcomes, send \in Outcomes, db \in DbOutcomes :
          PajStore(enc, send, db)

JEnqueue == \E s \in Slots, q \in EnqueueOutcomes : Enqueue(s, q)

JNext ==
    \/ JEnqueue
    \/ JWorker

\* The webhook runs to its return, and the worker process takes the jobs of
\* the queue and runs each to its end.
JobSpec ==
    JInit /\ [][JNext]_vars /\ WF_vars(JEnqueue) /\ WF_vars(JWorker)

\* The worker has taken the job of meeting i.
Handed(i) == wlog.fn = "process_audio_job" /\ wlog.id = i

\* Meeting i is transcribed or failed.
Settled(i) == meeting_notes[i].job_state \in {"transcribed", "failed"}

\* C35: every row the intake inserted is eventually handed to the worker
\* and, the worker being fair, eventually transcribed or failed, whatever
\* the outcome of the enqueue.
C35_EveryJobProcessed ==
    \A i \in JobIds :
        (i \in DOMAIN meeting_notes) ~> (Handed(i) /\ Settled(i))

\* The calls of transcribe_file_multilang of the run in the log: those that
\* raised and the one that returned.
TranscribeCalls ==
    wlog.tr_fails
    + (IF wlog.tr_files # {} /\ "transcribe" \notin wlog.errs THEN 1 ELSE 0)

\* A run of process_audio_job is under way.
PajRunning == wk.pc \in {"fetch", "transcribe", "store"}

\* C38: every run of process_audio_job ends, after at most RETRY_ATTEMPTS
\* download attempts and at most 2 x RETRY_ATTEMPTS transcription calls,
\* with the job transcribed or failed.
C38_RunEndsSettled ==
    PajRunning ~> (/\ RunEnded
                   /\ wlog.dl_calls <= RETRY_ATTEMPTS
                   /\ TranscribeCalls <= 2 * RETRY_ATTEMPTS
                   /\ Settled(wlog.id))

============================================================================
